---- MODULE Spec2Model ----
(***************************************************************************)
(* Verification model of the aldesantis/toolbox command-line utilities.    *)
(* Each tool is an independent batch script; the variable `tool` says      *)
(* which script a behaviour runs, and each script has its own variables,   *)
(* initial condition, actions and specification.                           *)
(***************************************************************************)
EXTENDS Integers, Sequences, FiniteSets, TLC

VARIABLES
    tool,            \* which script this behaviour runs
    \* ---- gawk (index.js main, src/fileProcessor.js, src/resultReporter.js)
    gOptions,        \* program.opts(): concurrency, prompts, backup, recursive
    filePaths,       \* getFilePaths(): the input list
    gQueue,          \* p-limit: indices of tasks not yet started
    activeCount,     \* p-limit: tasks currently running
    taskPc,          \* per task: position inside processFile
    settled,         \* per task: the value its promise resolved to
    completionOrder, \* indices of tasks in the order they resolved
    results,         \* the array Promise.all resolved to
    gMainPc,         \* position of main()
    \* ---- nugget (index.js)
    nMaxRetries,     \* parseInt(options.maxRetries)
    nFiles,          \* findMarkdownFiles(): the number of files, numbered from 1
    nIdx,            \* processFilesSequentially: the file being analysed
    nPc,             \* position of the script
    attempt,         \* withRetry: the loop variable
    nCalls,          \* invocations of operation() by the current withRetry call
    nDelays,         \* the delays the current withRetry call slept, in ms
    lastError,       \* withRetry: lastError
    nOutcome,        \* what the current withRetry call returned or threw
    nResults,        \* processFilesSequentially: results
    \* ---- feed2llm (index.js)
    fArticles,       \* the feed's items: the number of the URL each links to
    fConcurrent,     \* options.concurrent: its value, and whether it is a string
    fRun,            \* 1: first run; 2: the script run again on the same cache
    fI,              \* processArticles: the loop variable i, as a number
    fTask,           \* per item: the state of its processArticle call
    fCache,          \* the cache directory: articles and summaries, by id
    fOutput,         \* the output directory: articles and summaries, by title
    fRun1,           \* fTask as the first run left it
    fMainPc,         \* position of processArticles
    \* ---- paginated fetchers (gh2md, fireflies2md, linear2llm, Zendesk)
    srv,             \* per fetcher: the server's result list, in server order
    pageSize,        \* PAGE_SIZE / first: / --page-size, scaled to the model
    fx,              \* per fetcher: the state of its fetch loop
    xOpts,           \* options of the run: maxTickets, days of the range, batchSize
    xMain,           \* the script around the fetchers: position, files, exit code
    \* ---- date ranges (gh2md, fireflies2md, readwise2md, gmail2md, Zendesk)
    dTool,           \* the script that is run
    dArgs,           \* its --start/--end (--start-date/--end-date) arguments
    dItem,           \* the timestamp of an item the service holds
    dPc,             \* position of the script
    dRequests,       \* network requests issued so far
    dIncluded,       \* whether the item is in the export
    \* ---- isp2ynab
    iRow,            \* a data row of the sheet: its date cell and outflow cell
    iPc,             \* position of processExcelBuffer on that row
    iOut,            \* the row emitted to the CSV
    \* ---- gawk / ai-file-transformer: the files on disk
    rOptions,        \* concurrency, contentPrompt, backup (filenamePrompt is given)
    rBackup,         \* the backup directory: input file -> content of its backup copy
    rDir,            \* the directory: path -> the input file whose content it holds
    rTask,           \* per input file: the state of its processFile call
    \* ---- gmail2md exportThreads
    mThreads,        \* number of threads the query matches
    mPageSize,       \* threads per page of the listing
    mx,              \* exportThreads: position, pageToken, requests, counters
    \* ---- feed2llm: the rate-limited axios instance
    hNow,            \* Date.now(), in units of the model
    lastRequestTime, \* the interceptor's lastRequestTime
    hDelay,          \* options.delay
    hReq,            \* per HTTP request: position in the interceptor, timer, exit time
    \* ---- gawk validateFilenameResponse
    vResponse,       \* the model's answer: length, quotes at its ends, extension length
    vOriginalExt,    \* length of path.extname(originalName), 0 when it has none
    vReturned,       \* length of the returned filename, 0 before the call
    \* ---- receipt2fic main
    cPages,          \* number of pages of the PDF
    cx               \* main: position, page and step, failed pages, documents, exit

gawkVars == <<gOptions, filePaths, gQueue, activeCount, taskPc, settled,
              completionOrder, results, gMainPc>>

nuggetVars == <<nMaxRetries, nFiles, nIdx, nPc, attempt, nCalls, nDelays,
                lastError, nOutcome, nResults>>

feedVars == <<fArticles, fConcurrent, fRun, fI, fTask, fCache, fOutput, fRun1,
              fMainPc>>

fetchVars == <<srv, pageSize, fx, xOpts, xMain>>

dateVars == <<dTool, dArgs, dItem, dPc, dRequests, dIncluded>>

ispVars == <<iRow, iPc, iOut>>

renameVars == <<rOptions, rDir, rTask, rBackup>>

gmailVars == <<mThreads, mPageSize, mx>>

httpVars == <<hNow, lastRequestTime, hDelay, hReq>>

validateVars == <<vResponse, vOriginalExt, vReturned>>

receiptVars == <<cPages, cx>>

vars == <<tool, gawkVars, nuggetVars, feedVars, fetchVars, dateVars, ispVars, renameVars, gmailVars, httpVars, validateVars, receiptVars>>

----------------------------------------------------------------------------
(* Bounds of the model *)

MaxFiles == 3
MaxConcurrency == 2
MaxRetriesOption == 3
MaxNuggetFiles == 2
MaxArticles == 2
MaxItems == 6
MaxPageSize == 2
MaxGhItems == 1
MaxGhPageSize == 1
MaxDays == 2
MaxDay == 3
MaxDayField == 32
MaxMonthField == 13
MaxCellLen == 4
MaxRenameFiles == 2
MaxBatchOption == 2
MaxThreads == 3
MaxGmailRequests == 4
MaxReviewPages == 5
MaxHttpRequests == 3
MaxTime == 5
MaxDelay == 2
MaxUnder == 3
MaxOver == 3
MaxExtLen == 6
MaxPages == 4

----------------------------------------------------------------------------
(* Generic helpers *)

Min(a, b) == IF a < b THEN a ELSE b

Range(s) == {s[i] : i \in 1..Len(s)}

Undefined == "undefined"

\* nugget: --delay default, index.js:21
NuggetInitialDelay == 1000

\* gh2md fetchCommits: const batchSize = 10, index.js:214
CommitBatchSize == 10

\* feed2llm: DEFAULTS, index.js:19-27
RetryDelay == 1000
MaxRetryDelay == 60000
MaxRetries == 5

----------------------------------------------------------------------------
(* gawk *)

GawkOptionSets ==
    {o \in [concurrency : 1..MaxConcurrency, contentPrompt : BOOLEAN,
            filenamePrompt : BOOLEAN, backup : BOOLEAN, recursive : BOOLEAN] :
        o.contentPrompt \/ o.filenamePrompt}

\* The values processFile resolves to. File paths are numbered from 1; 0 in
\* a path field stands for a property the object does not have.
NoValue ==
    [success |-> FALSE, filepath |-> 0, originalPath |-> 0, newPath |-> 0,
     contentChanged |-> FALSE, nameChanged |-> FALSE, error |-> "pending"]

FailureResult(filepath, message) ==
    [success |-> FALSE, filepath |-> filepath, originalPath |-> 0, newPath |-> 0,
     contentChanged |-> FALSE, nameChanged |-> FALSE, error |-> message]

SuccessResult(filepath, newPath, contentChanged, nameChanged) ==
    [success |-> TRUE, filepath |-> 0, originalPath |-> filepath,
     newPath |-> newPath, contentChanged |-> contentChanged,
     nameChanged |-> nameChanged, error |-> Undefined]

\* README.md:164 pLimit(parseInt(options.concurrency)): a queued task may be
\* started only while fewer than `concurrency` tasks are running.
PLimitMayRunOffByOne(active, concurrency) == active <= concurrency

PLimitMayRun(active, concurrency) == active < concurrency

\* Number of queued tasks p-limit starts at once when `queued` tasks have been
\* handed to limit() and `active` are running.
RECURSIVE PLimitStarts(_, _, _)
PLimitStarts(queued, active, concurrency) ==
    IF queued > 0 /\ PLimitMayRun(active, concurrency)
    THEN 1 + PLimitStarts(queued - 1, active + 1, concurrency)
    ELSE 0

\* processFile up to its first await: the step the task waits in.
FirstStep(o) ==
    IF o.contentPrompt THEN "isProcessableFile"
    ELSE IF o.backup THEN "backupFile"
    ELSE "applyTransformations"

Running(pc) == pc \in {"isProcessableFile", "backupFile", "applyTransformations"}

InFlight == Cardinality({i \in DOMAIN taskPc : Running(taskPc[i])})

\* Promise.all(tasks): the values, indexed as the input promises are.
PromiseAll(values, order) == [i \in 1..Len(values) |-> values[i]]

GawkStart ==
    /\ gOptions \in GawkOptionSets
    /\ \E n \in 0..MaxFiles : filePaths = [i \in 1..n |-> i]
    /\ gQueue = <<>>
    /\ activeCount = 0
    /\ taskPc = [i \in 1..Len(filePaths) |-> "created"]
    /\ settled = [i \in 1..Len(filePaths) |-> NoValue]
    /\ completionOrder = <<>>
    /\ results = <<>>
    /\ gMainPc = "start"

GawkIdle ==
    /\ gOptions = [concurrency |-> 1, contentPrompt |-> TRUE,
                   filenamePrompt |-> FALSE, backup |-> FALSE, recursive |-> FALSE]
    /\ filePaths = <<>>
    /\ gQueue = <<>>
    /\ activeCount = 0
    /\ taskPc = <<>>
    /\ settled = <<>>
    /\ completionOrder = <<>>
    /\ results = <<>>
    /\ gMainPc = "idle"

\* main(): filePaths.map(... limit(() => processor.processFile(...))): every task
\* is handed to p-limit, which starts the first ones.
MainMapTasks ==
    /\ gMainPc = "start"
    /\ LET n == Len(filePaths)
           k == PLimitStarts(n, 0, gOptions.concurrency)
       IN /\ taskPc' = [i \in 1..n |-> IF i <= k THEN FirstStep(gOptions) ELSE "queued"]
          /\ gQueue' = [j \in 1..(n - k) |-> k + j]
          /\ activeCount' = k
    /\ gMainPc' = "awaiting"
    /\ UNCHANGED <<gOptions, filePaths, settled, completionOrder, results>>

\* A task's promise resolves with `value`; p-limit's next() then starts the head
\* of the queue.
Resolve(i, value) ==
    /\ settled' = [settled EXCEPT ![i] = value]
    /\ completionOrder' = Append(completionOrder, i)
    /\ IF gQueue # <<>>
       THEN /\ taskPc' = [taskPc EXCEPT ![i] = "resolved",
                                        ![Head(gQueue)] = FirstStep(gOptions)]
            /\ gQueue' = Tail(gQueue)
            /\ activeCount' = (activeCount - 1) + 1
       ELSE /\ taskPc' = [taskPc EXCEPT ![i] = "resolved"]
            /\ gQueue' = gQueue
            /\ activeCount' = activeCount - 1

\* processFile: if (contentPrompt && !await isProcessableFile(filepath)) return failure
ProcessFileCheck(i) ==
    /\ taskPc[i] = "isProcessableFile"
    /\ \E processable \in BOOLEAN :
         IF processable
         THEN /\ taskPc' = [taskPc EXCEPT ![i] =
                    IF gOptions.backup THEN "backupFile" ELSE "applyTransformations"]
              /\ UNCHANGED <<settled, completionOrder, gQueue, activeCount>>
         ELSE Resolve(i, FailureResult(filePaths[i], "NotProcessable"))
    /\ UNCHANGED <<gOptions, filePaths, results, gMainPc>>

\* processFile: if (backup) await backupFile(filepath); a throw is caught
ProcessFileBackup(i) ==
    /\ taskPc[i] = "backupFile"
    /\ \E copied \in BOOLEAN :
         IF copied
         THEN /\ taskPc' = [taskPc EXCEPT ![i] = "applyTransformations"]
              /\ UNCHANGED <<settled, completionOrder, gQueue, activeCount>>
         ELSE Resolve(i, FailureResult(filePaths[i], "BackupError"))
    /\ UNCHANGED <<gOptions, filePaths, results, gMainPc>>

\* The errors applyTransformations can throw: a remote-call error (callClaude),
\* a validation error (validateContentResponse), a file error (readFile,
\* writeFile, unlink, rename).
TransformErrors(o) ==
    {"RemoteError", "FileError"} \union
    (IF o.contentPrompt THEN {"ValidationError"} ELSE {})

\* newFilepath when the name changed: a path different from every input path.
Renamed(filepath) == filepath + MaxFiles + 1

\* processFile: result = await applyTransformations(filepath); a throw is caught
ProcessFileTransform(i) ==
    /\ taskPc[i] = "applyTransformations"
    /\ \/ \E e \in TransformErrors(gOptions) :
            Resolve(i, FailureResult(filePaths[i], e))
       \/ \E contentChanged \in (IF gOptions.contentPrompt THEN BOOLEAN ELSE {FALSE}),
             nameChanged \in (IF gOptions.filenamePrompt THEN BOOLEAN ELSE {FALSE}) :
            Resolve(i, SuccessResult(filePaths[i],
                         IF nameChanged THEN Renamed(filePaths[i]) ELSE filePaths[i],
                         contentChanged, nameChanged))
    /\ UNCHANGED <<gOptions, filePaths, results, gMainPc>>

\* main(): const results = await Promise.all(tasks)
MainPromiseAll ==
    /\ gMainPc = "awaiting"
    /\ \A i \in DOMAIN taskPc : taskPc[i] = "resolved"
    /\ results' = PromiseAll(settled, completionOrder)
    /\ gMainPc' = "report"
    /\ UNCHANGED <<gOptions, filePaths, gQueue, activeCount, taskPc, settled,
                   completionOrder>>

\* Names bound in resultReporter.js: its only import is `path`.
ResultReporterBindings == {"path", "ResultReporter", "console"}

\* ResultReporter.report(results, options): the exception it ends with, if any.
ReportThrows(rs, o) ==
    IF \E i \in 1..Len(rs) : rs[i].success /\ rs[i].originalPath = 0
    THEN "TypeError"
    ELSE IF \E i \in 1..Len(rs) : ~rs[i].success /\ rs[i].filepath = 0
    THEN "TypeError"
    ELSE IF o.backup /\ "CONFIG" \notin ResultReporterBindings
    THEN "ReferenceError"
    ELSE "none"

\* main(): ResultReporter.report(results, options) inside try; catch -> exit(1)
MainReport ==
    /\ gMainPc = "report"
    /\ gMainPc' = IF ReportThrows(results, gOptions) = "none" THEN "exit0" ELSE "exit1"
    /\ UNCHANGED <<gOptions, filePaths, gQueue, activeCount, taskPc, settled,
                   completionOrder, results>>

NextGawk ==
    \/ MainMapTasks
    \/ \E i \in DOMAIN taskPc : ProcessFileCheck(i)
    \/ \E i \in DOMAIN taskPc : ProcessFileBackup(i)
    \/ \E i \in DOMAIN taskPc : ProcessFileTransform(i)
    \/ MainPromiseAll
    \/ MainReport

----------------------------------------------------------------------------
(* nugget *)

\* Thrown values. An Error carries the HTTP status of the SDK error (0: the
\* error has no status property) and the number of the invocation that threw
\* it; "undefined" is the value of a variable never assigned.
ErrorOf(status, id) == [kind |-> "Error", status |-> status, id |-> id]

UndefinedValue == [kind |-> "undefined", status |-> 0, id |-> 0]

NullValue == [kind |-> "null", status |-> 0, id |-> 0]

\* The statuses anthropic.messages.create can fail with in the model.
OperationStatuses == {429, 503, 500, 0}

\* withRetry: !(!error.status || (error.status !== 429 && error.status !== 503))
NuggetIsTransientOnly429(error) == error.status = 429

NuggetIsTransient(error) ==
    ~(error.status = 0 \/ (error.status # 429 /\ error.status # 503))

\* withRetry: for (let attempt = 0; attempt < maxRetries; attempt++)
NuggetLoopGuard(a, maxRetries) == a < maxRetries

\* withRetry: if (attempt === maxRetries - 1) throw error
NuggetIsLastAttempt(a, maxRetries) == a = maxRetries - 1

\* 0.5 + Math.random(), in tenths: a value of [0.5, 1.5)
JitterTenths == {5, 10, 14}

RECURSIVE Pow2(_)
Pow2(n) == IF n = 0 THEN 1 ELSE 2 * Pow2(n - 1)

\* withRetry: initialDelay * Math.pow(2, attempt) * (0.5 + Math.random())
NuggetDelay(initialDelay, a, jitter) == (initialDelay * Pow2(a) * jitter) \div 10

NuggetStart ==
    /\ nMaxRetries \in 0..MaxRetriesOption
    /\ nFiles \in 0..MaxNuggetFiles
    /\ nIdx = 0
    /\ nPc = "main"
    /\ attempt = 0
    /\ nCalls = 0
    /\ nDelays = <<>>
    /\ lastError = UndefinedValue
    /\ nOutcome = [kind |-> "none", value |-> UndefinedValue]
    /\ nResults = <<>>

NuggetIdle ==
    /\ nMaxRetries = 0
    /\ nFiles = 0
    /\ nIdx = 0
    /\ nPc = "idle"
    /\ attempt = 0
    /\ nCalls = 0
    /\ nDelays = <<>>
    /\ lastError = UndefinedValue
    /\ nOutcome = [kind |-> "none", value |-> UndefinedValue]
    /\ nResults = <<>>

\* main(): files.length === 0 -> return; else processFilesSequentially starts
\* analyzeContent on the first file.
NuggetMain ==
    /\ nPc = "main"
    /\ IF nFiles = 0
       THEN nPc' = "exit0" /\ nIdx' = nIdx
       ELSE nPc' = "readFile" /\ nIdx' = 1
    /\ UNCHANGED <<nMaxRetries, nFiles, attempt, nCalls, nDelays, lastError,
                   nOutcome, nResults>>

\* withRetry is entered: the loop runs when its guard holds, else `throw lastError`
EnterWithRetry ==
    /\ attempt' = 0
    /\ nCalls' = 0
    /\ nDelays' = <<>>
    /\ lastError' = UndefinedValue
    /\ IF NuggetLoopGuard(0, nMaxRetries)
       THEN nPc' = "operation" /\ nOutcome' = [kind |-> "none", value |-> UndefinedValue]
       ELSE nPc' = "withRetryDone" /\ nOutcome' = [kind |-> "threw", value |-> UndefinedValue]

\* analyzeContent's catch block, handling `error`: it reads error.type and
\* error.message, which throws for undefined; otherwise it returns the failure.
AnalyzeCatch(error) ==
    IF error.kind = "undefined"
    THEN /\ nPc' = "exit1"
         /\ nResults' = nResults
    ELSE /\ nPc' = "sleep200"
         /\ nResults' = Append(nResults, [file |-> nIdx, suggestions |-> FALSE,
                                          error |-> error])

\* analyzeContent: content = await fs.readFile(filePath); then withRetry(...)
AnalyzeReadFile ==
    /\ nPc = "readFile"
    /\ \/ /\ EnterWithRetry
          /\ UNCHANGED nResults
       \/ /\ AnalyzeCatch(ErrorOf(0, 0))
          /\ UNCHANGED <<attempt, nCalls, nDelays, lastError, nOutcome>>
    /\ UNCHANGED <<nMaxRetries, nFiles, nIdx>>

\* withRetry: one pass of the loop body, `return await operation()` and its catch
WithRetryAttempt ==
    /\ nPc = "operation"
    /\ nCalls' = nCalls + 1
    /\ \/ /\ nOutcome' = [kind |-> "returned", value |-> NullValue]
          /\ nPc' = "withRetryDone"
          /\ UNCHANGED <<lastError, nDelays>>
       \/ \E status \in OperationStatuses :
            LET error == ErrorOf(status, nCalls + 1) IN
            /\ lastError' = error
            /\ IF ~NuggetIsTransient(error) \/ NuggetIsLastAttempt(attempt, nMaxRetries)
               THEN /\ nOutcome' = [kind |-> "threw", value |-> error]
                    /\ nPc' = "withRetryDone"
                    /\ nDelays' = nDelays
               ELSE /\ \E jitter \in JitterTenths :
                         nDelays' = Append(nDelays,
                                      NuggetDelay(NuggetInitialDelay, attempt, jitter))
                    /\ nPc' = "sleep"
                    /\ nOutcome' = nOutcome
    /\ UNCHANGED <<nMaxRetries, nFiles, nIdx, attempt, nResults>>

\* withRetry: await sleep(delay) ends; attempt++ and the loop guard
WithRetryWake ==
    /\ nPc = "sleep"
    /\ attempt' = attempt + 1
    /\ IF NuggetLoopGuard(attempt + 1, nMaxRetries)
       THEN nPc' = "operation" /\ nOutcome' = nOutcome
       ELSE nPc' = "withRetryDone" /\ nOutcome' = [kind |-> "threw", value |-> lastError]
    /\ UNCHANGED <<nMaxRetries, nFiles, nIdx, nCalls, nDelays, lastError, nResults>>

\* analyzeContent after withRetry: return the suggestions, or the catch block
AnalyzeFinish ==
    /\ nPc = "withRetryDone"
    /\ IF nOutcome.kind = "returned"
       THEN /\ nResults' = Append(nResults, [file |-> nIdx, suggestions |-> TRUE,
                                             error |-> NullValue])
            /\ nPc' = "sleep200"
       ELSE AnalyzeCatch(nOutcome.value)
    /\ UNCHANGED <<nMaxRetries, nFiles, nIdx, attempt, nCalls, nDelays, lastError,
                   nOutcome>>

\* processFilesSequentially: results.push(result); await sleep(200); next file.
\* After the last file main() prints the suggestions and returns.
NuggetNextFile ==
    /\ nPc = "sleep200"
    /\ IF nIdx < nFiles
       THEN nPc' = "readFile" /\ nIdx' = nIdx + 1
       ELSE nPc' = "exit0" /\ nIdx' = nIdx
    /\ UNCHANGED <<nMaxRetries, nFiles, attempt, nCalls, nDelays, lastError,
                   nOutcome, nResults>>

NextNugget ==
    \/ NuggetMain
    \/ AnalyzeReadFile
    \/ WithRetryAttempt
    \/ WithRetryWake
    \/ AnalyzeFinish
    \/ NuggetNextFile

----------------------------------------------------------------------------
(* feed2llm *)

\* The URLs feed items link to, as url.split('/') yields them.
UrlSegments ==
    <<  <<"https:", "", "site", "blog", "a">>,
        <<"https:", "", "site", "blog", "b">>,
        <<"https:", "", "site">>  >>

FeedUrls == DOMAIN UrlSegments

\* parts.slice(-2)[0]
SliceMinus2First(parts) ==
    IF Len(parts) >= 2 THEN parts[Len(parts) - 1] ELSE parts[1]

\* processArticle: url.split('/').slice(-2)[0] || Buffer.from(url).toString('base64')
CacheId(url) ==
    LET segment == SliceMinus2First(UrlSegments[url]) IN
    IF segment # "" THEN [segment |-> segment, base64 |-> 0]
    ELSE [segment |-> "", base64 |-> url]

CacheIds == {CacheId(u) : u \in FeedUrls}

\* What the site serves at a URL, and the summary the model gives of a content:
\* remote responses do not change between runs. 0 stands for no value.
ContentOf(url) == url

SummaryOf(content) == content

\* withRetry's catch: error.message.includes('rate_limit_error') && retryCount < maxRetries
FeedMayRetryAnyError(error, retryCount) == retryCount < MaxRetries

FeedMayRetry(error, retryCount) == error.rateLimit /\ retryCount < MaxRetries

\* withRetry: Math.min(delay * 2, DEFAULTS.maxRetryDelay)
NextDelay(delay) == Min(delay * 2, MaxRetryDelay)

\* i + options.concurrent: a number, or the concatenation of the decimal
\* digits when options.concurrent is the string given on the command line
\* (one digit in the model), read back as a number by slice() and by `<`.
JsPlus(i, concurrent) ==
    IF concurrent.isString THEN i * 10 + concurrent.value ELSE i + concurrent.value

\* withRetry's locals before its first call; error is the value last caught
FreshRetry ==
    [retryCount |-> 0, delay |-> RetryDelay, calls |-> 0, delays |-> <<>>,
     settled |-> "pending", error |-> [rateLimit |-> FALSE, id |-> 0]]

FreshTask ==
    [pc |-> "notStarted", content |-> 0, summary |-> 0, retry |-> FreshRetry,
     usedRemote |-> FALSE, result |-> "pending"]

\* The feeds of the model: items with different URLs, in the order of UrlSegments
FeedItemLists ==
    UNION {{a \in [1..n -> FeedUrls] : \A i, j \in 1..n : i < j => a[i] < a[j]} :
           n \in 0..MaxArticles}

FeedStart ==
    /\ fArticles \in FeedItemLists
    /\ fConcurrent \in [value : 1..MaxConcurrency, isString : BOOLEAN]
    /\ fRun = 1
    /\ fI = 0
    /\ fTask = [i \in 1..Len(fArticles) |-> FreshTask]
    /\ fCache = [articles |-> [id \in CacheIds |-> 0],
                 summaries |-> [id \in CacheIds |-> 0]]
    /\ fOutput = [articles |-> [u \in FeedUrls |-> 0],
                  summaries |-> [u \in FeedUrls |-> 0]]
    /\ fRun1 = <<>>
    /\ fMainPc = "start"

\* A feed with one item per URL of the model
FeedChunksStart ==
    /\ fArticles = [i \in 1..Cardinality(FeedUrls) |-> i]
    /\ fConcurrent \in [value : 1..MaxConcurrency, isString : BOOLEAN]
    /\ fRun = 1
    /\ fI = 0
    /\ fTask = [i \in 1..Len(fArticles) |-> FreshTask]
    /\ fCache = [articles |-> [id \in CacheIds |-> 0],
                 summaries |-> [id \in CacheIds |-> 0]]
    /\ fOutput = [articles |-> [u \in FeedUrls |-> 0],
                  summaries |-> [u \in FeedUrls |-> 0]]
    /\ fRun1 = <<>>
    /\ fMainPc = "start"

\* processArticle calls that have started and not returned
FeedInFlight ==
    Cardinality({k \in DOMAIN fTask : fTask[k].pc \notin {"notStarted", "returned"}})

FeedIdle ==
    /\ fArticles = <<>>
    /\ fConcurrent = [value |-> 1, isString |-> FALSE]
    /\ fRun = 1
    /\ fI = 0
    /\ fTask = <<>>
    /\ fCache = [articles |-> [id \in CacheIds |-> 0],
                 summaries |-> [id \in CacheIds |-> 0]]
    /\ fOutput = [articles |-> [u \in FeedUrls |-> 0],
                  summaries |-> [u \in FeedUrls |-> 0]]
    /\ fRun1 = <<>>
    /\ fMainPc = "idle"

\* articles.slice(i, i + options.concurrent), as 1-based indices
Chunk(i) ==
    {k \in 1..Len(fArticles) : i < k /\ k <= JsPlus(i, fConcurrent)}

\* One pass of the loop of processArticles from index i: the loop ends, or the
\* chunk's processArticle calls all start and run to their first await.
LoopFrom(i) ==
    /\ fI' = i
    /\ IF i < Len(fArticles)
       THEN /\ fTask' = [k \in DOMAIN fTask |->
                          IF k \in Chunk(i)
                          THEN [fTask[k] EXCEPT !.pc = "cacheReadArticle"]
                          ELSE fTask[k]]
            /\ fMainPc' = "awaitChunk"
       ELSE /\ fTask' = fTask
            /\ fMainPc' = "finished"

ProcessArticlesStart ==
    /\ fMainPc = "start"
    /\ LoopFrom(0)
    /\ UNCHANGED <<fArticles, fConcurrent, fRun, fCache, fOutput, fRun1>>

\* await Promise.all(chunk.map(...)) resumes; i += options.concurrent
ProcessArticlesNext ==
    /\ fMainPc = "awaitChunk"
    /\ \A k \in Chunk(fI) : fTask[k].pc = "returned"
    /\ LoopFrom(JsPlus(fI, fConcurrent))
    /\ UNCHANGED <<fArticles, fConcurrent, fRun, fCache, fOutput, fRun1>>

\* withCache(articlesCache, id, ...): the cached value, or the generator runs
CacheReadArticle(k) ==
    /\ fTask[k].pc = "cacheReadArticle"
    /\ LET cached == fCache.articles[CacheId(fArticles[k])] IN
       fTask' = IF cached # 0
                THEN [fTask EXCEPT ![k].pc = "cacheReadSummary", ![k].content = cached]
                ELSE [fTask EXCEPT ![k].pc = "httpGet"]
    /\ UNCHANGED <<fArticles, fConcurrent, fRun, fI, fCache, fOutput, fRun1, fMainPc>>

\* The generator: http.get(url), then extractContent, either of which may throw
HttpGet(k) ==
    /\ fTask[k].pc = "httpGet"
    /\ \/ fTask' = [fTask EXCEPT ![k].pc = "cacheWriteArticle",
                                 ![k].usedRemote = TRUE,
                                 ![k].content = ContentOf(fArticles[k])]
       \/ fTask' = [fTask EXCEPT ![k].pc = "returned", ![k].result = "null",
                                 ![k].usedRemote = TRUE]
    /\ UNCHANGED <<fArticles, fConcurrent, fRun, fI, fCache, fOutput, fRun1, fMainPc>>

\* withCache: fs.writeFile(<cacheDir>/<id>.json, result)
CacheWriteArticle(k) ==
    /\ fTask[k].pc = "cacheWriteArticle"
    /\ fCache' = [fCache EXCEPT !.articles[CacheId(fArticles[k])] = fTask[k].content]
    /\ fTask' = [fTask EXCEPT ![k].pc = "cacheReadSummary"]
    /\ UNCHANGED <<fArticles, fConcurrent, fRun, fI, fOutput, fRun1, fMainPc>>

\* withCache(summariesCache, id, ...): the cached value, or getSummary -> withRetry
CacheReadSummary(k) ==
    /\ fTask[k].pc = "cacheReadSummary"
    /\ LET cached == fCache.summaries[CacheId(fArticles[k])] IN
       fTask' = IF cached # 0
                THEN [fTask EXCEPT ![k].pc = "saveFiles", ![k].summary = cached]
                ELSE [fTask EXCEPT ![k].pc = "operation"]
    /\ UNCHANGED <<fArticles, fConcurrent, fRun, fI, fCache, fOutput, fRun1, fMainPc>>

\* withRetry: `return await operation()` and its catch
FeedWithRetryAttempt(k) ==
    /\ fTask[k].pc = "operation"
    /\ LET r == fTask[k].retry IN
       \/ fTask' = [fTask EXCEPT ![k].pc = "withRetrySettled",
                                 ![k].usedRemote = TRUE,
                                 ![k].retry.calls = @ + 1,
                                 ![k].retry.settled = "returned",
                                 ![k].summary = SummaryOf(fTask[k].content)]
       \/ \E rateLimit \in BOOLEAN :
            LET error == [rateLimit |-> rateLimit, id |-> r.calls + 1] IN
            IF FeedMayRetry(error, r.retryCount)
            THEN fTask' = [fTask EXCEPT ![k].pc = "sleep",
                                        ![k].usedRemote = TRUE,
                                        ![k].retry.calls = @ + 1,
                                        ![k].retry.error = error,
                                        ![k].retry.delay = NextDelay(@),
                                        ![k].retry.delays = Append(@, NextDelay(r.delay))]
            ELSE fTask' = [fTask EXCEPT ![k].pc = "withRetrySettled",
                                        ![k].usedRemote = TRUE,
                                        ![k].retry.calls = @ + 1,
                                        ![k].retry.settled = "threw",
                                        ![k].retry.error = error]
    /\ UNCHANGED <<fArticles, fConcurrent, fRun, fI, fCache, fOutput, fRun1, fMainPc>>

\* withRetry: await sleep(nextDelay) ends; withRetry(operation, {retryCount + 1, ...})
FeedWithRetryWake(k) ==
    /\ fTask[k].pc = "sleep"
    /\ fTask' = [fTask EXCEPT ![k].pc = "operation", ![k].retry.retryCount = @ + 1]
    /\ UNCHANGED <<fArticles, fConcurrent, fRun, fI, fCache, fOutput, fRun1, fMainPc>>

\* getSummary's promise has settled: the generator of withCache goes on, or
\* processArticle's catch returns null
AfterWithRetry(k) ==
    /\ fTask[k].pc = "withRetrySettled"
    /\ fTask' = IF fTask[k].retry.settled = "returned"
                THEN [fTask EXCEPT ![k].pc = "cacheWriteSummary", ![k].retry = FreshRetry]
                ELSE [fTask EXCEPT ![k].pc = "returned", ![k].result = "null",
                                   ![k].retry = FreshRetry]
    /\ UNCHANGED <<fArticles, fConcurrent, fRun, fI, fCache, fOutput, fRun1, fMainPc>>

CacheWriteSummary(k) ==
    /\ fTask[k].pc = "cacheWriteSummary"
    /\ fCache' = [fCache EXCEPT !.summaries[CacheId(fArticles[k])] = fTask[k].summary]
    /\ fTask' = [fTask EXCEPT ![k].pc = "saveFiles"]
    /\ UNCHANGED <<fArticles, fConcurrent, fRun, fI, fOutput, fRun1, fMainPc>>

\* Promise.all([writeFile(articles/<title>.md), writeFile(summaries/<title>.md)]);
\* return { title, summary, url }. An item's title is one with its URL here.
SaveFiles(k) ==
    /\ fTask[k].pc = "saveFiles"
    /\ fOutput' = [fOutput EXCEPT !.articles[fArticles[k]] = fTask[k].content,
                                  !.summaries[fArticles[k]] = fTask[k].summary]
    /\ fTask' = [fTask EXCEPT ![k].pc = "returned", ![k].result = "summary"]
    /\ UNCHANGED <<fArticles, fConcurrent, fRun, fI, fCache, fRun1, fMainPc>>

\* The script is run a second time on the same feed with the same cache directory.
FeedRunAgain ==
    /\ fMainPc = "finished"
    /\ fRun = 1
    /\ fRun' = 2
    /\ fRun1' = fTask
    /\ fTask' = [i \in 1..Len(fArticles) |-> FreshTask]
    /\ fI' = 0
    /\ fMainPc' = "start"
    /\ UNCHANGED <<fArticles, fConcurrent, fCache, fOutput>>

NextFeed ==
    \/ ProcessArticlesStart
    \/ ProcessArticlesNext
    \/ \E k \in DOMAIN fTask : CacheReadArticle(k)
    \/ \E k \in DOMAIN fTask : HttpGet(k)
    \/ \E k \in DOMAIN fTask : CacheWriteArticle(k)
    \/ \E k \in DOMAIN fTask : CacheReadSummary(k)
    \/ \E k \in DOMAIN fTask : FeedWithRetryAttempt(k)
    \/ \E k \in DOMAIN fTask : FeedWithRetryWake(k)
    \/ \E k \in DOMAIN fTask : AfterWithRetry(k)
    \/ \E k \in DOMAIN fTask : CacheWriteSummary(k)
    \/ \E k \in DOMAIN fTask : SaveFiles(k)
    \/ FeedRunAgain

----------------------------------------------------------------------------
(* Paginated fetchers *)

\* Items are numbered 1..n in server order.
Numbered(n) == [i \in 1..n |-> i]

SubSeqFrom(list, from, count) == SubSeq(list, from + 1, Min(from + count, Len(list)))

\* GitHub REST: page `page` (from 1) of `list` with per_page = size
RestPage(list, page, size) == SubSeqFrom(list, (page - 1) * size, size)

\* Fireflies GraphQL: transcripts(limit: size, skip: skip)
SkipPage(list, skip, size) == SubSeqFrom(list, skip, size)

\* Linear GraphQL: issues(after: cursor, first: size); the cursor of an item is
\* its number, 0 is null
CursorPage(list, cursor, size) ==
    LET nodes == SubSeqFrom(list, cursor, size) IN
    [nodes |-> nodes,
     hasNextPage |-> cursor + size < Len(list),
     endCursor |-> IF nodes = <<>> THEN 0 ELSE cursor + Len(nodes)]

\* Zendesk search: page `page` of the results, next_page (0: null), count
SearchPage(list, page, size) ==
    [results |-> RestPage(list, page, size),
     next_page |-> IF page * size < Len(list) THEN page + 1 ELSE 0,
     count |-> Len(list)]

\* GitHub events, newest first: newer than the range, in the range (a
\* WatchEvent or another type), older than the range
EventRank(e) == CASE e = "new" -> 3 [] e = "watch" -> 2 [] e = "push" -> 2 [] e = "old" -> 1

EventLists(max) ==
    UNION {{l \in [1..n -> {"new", "watch", "push", "old"}] :
              \A i, j \in 1..n : i < j => EventRank(l[i]) >= EventRank(l[j])} :
           n \in 0..max}

\* fetchUserEvents: eventDate >= since && eventDate <= until
EventInRange(e) == e \in {"watch", "push"}

RECURSIVE SelectSeq2(_, _)
SelectSeq2(list, keep) ==
    IF list = <<>> THEN <<>>
    ELSE (IF Head(list) \in keep THEN <<Head(list)>> ELSE <<>>)
         \o SelectSeq2(Tail(list), keep)

\* i, inFlight and got belong to the detail batches of fetchCommits: the loop
\* index, the fetchCommitDetails calls awaited and those that gave details
FreshFetch(firstPc) ==
    [pc |-> firstPc, page |-> 1, items |-> <<>>, requests |-> 0, failed |-> FALSE,
     value |-> <<>>, i |-> 0, inFlight |-> {}, got |-> {}]

NoMain == [pc |-> "none", files |-> 0, exit |-> "running"]

\* One fetch function called on its own.
FetchUnits == {"prs", "issues", "transcripts", "linearIssues"}

FetchUnitStart ==
    /\ pageSize \in 1..MaxPageSize
    /\ \E f \in FetchUnits, n \in 0..MaxItems :
         /\ srv = [g \in {f} |-> Numbered(n)]
         /\ fx = [g \in {f} |-> FreshFetch("request")]
    /\ xOpts = [maxTickets |-> 0, days |-> 1, batchSize |-> CommitBatchSize]
    /\ xMain = NoMain

\* gh2md's fetchCommits called on its own, under a --batch-size option
FetchCommitsStart ==
    /\ pageSize \in 1..MaxPageSize
    /\ \E n \in 0..MaxItems : srv = [g \in {"commits"} |-> Numbered(n)]
    /\ fx = [g \in {"commits"} |-> FreshFetch("getAuthenticated")]
    /\ \E b \in 1..MaxBatchOption :
         xOpts = [maxTickets |-> 0, days |-> 1, batchSize |-> b]
    /\ xMain = NoMain

\* The Trustpilot scrapers' getAllReviews called on its own
TrustpilotStart ==
    /\ pageSize \in 1..MaxPageSize
    /\ \E n \in 0..MaxItems : srv = [g \in {"reviews"} |-> Numbered(n)]
    /\ fx = [g \in {"reviews"} |-> FreshFetch("request")]
    /\ xOpts = [maxTickets |-> 0, days |-> 1, batchSize |-> CommitBatchSize]
    /\ xMain = NoMain

\* gh2md: exportGitHubActivity starts the four fetchers in one Promise.all
Gh2mdStart ==
    /\ pageSize \in 1..MaxGhPageSize
    /\ \E ev \in EventLists(MaxGhItems), n1, n2, n3 \in 0..MaxGhItems :
         srv = [g \in {"events", "prs", "commits", "issues"} |->
                  CASE g = "events" -> ev
                    [] g = "prs" -> Numbered(n1)
                    [] g = "commits" -> Numbered(n2)
                    [] g = "issues" -> Numbered(n3)]
    /\ fx = [g \in {"events", "prs", "commits", "issues"} |->
               FreshFetch(IF g = "commits" THEN "getAuthenticated" ELSE "request")]
    /\ \E d \in 1..MaxDays, b \in 1..MaxBatchOption :
         xOpts = [maxTickets |-> 0, days |-> d, batchSize |-> b]
    /\ xMain = [pc |-> "fetching", files |-> 0, exit |-> "running"]

\* Zendesk: the main function calls fetchTickets
ZendeskStart ==
    /\ pageSize \in 1..MaxPageSize
    /\ \E n \in 0..MaxItems : srv = [g \in {"tickets"} |-> Numbered(n)]
    /\ fx = [g \in {"tickets"} |-> FreshFetch("request")]
    /\ \E m \in 0..MaxItems :
         xOpts = [maxTickets |-> m, days |-> 1, batchSize |-> CommitBatchSize]
    /\ xMain = [pc |-> "fetching", files |-> 0, exit |-> "running"]

FetchIdle ==
    /\ pageSize = 1
    /\ srv = <<>>
    /\ fx = <<>>
    /\ xOpts = [maxTickets |-> 0, days |-> 1, batchSize |-> CommitBatchSize]
    /\ xMain = NoMain

Returned(f, value) ==
    fx' = [fx EXCEPT ![f].pc = "returned", ![f].requests = @ + 1, ![f].value = value]

\* gh2md fetchers: catch (error) { console.error(...); return []; }
GhCatch(f) ==
    fx' = [fx EXCEPT ![f].pc = "returned", ![f].requests = @ + 1,
                     ![f].failed = TRUE, ![f].value = <<>>]

\* The page that ends a gh2md search loop: items.length < PAGE_SIZE
GhIsLastPageAtMost(page, size) == Len(page) <= size

GhIsLastPage(page, size) == Len(page) < size

\* fetchPullRequests / fetchIssues: one pass of while (true)
GhSearchPage(f) ==
    /\ f \in DOMAIN fx /\ f \in {"prs", "issues"}
    /\ fx[f].pc = "request"
    /\ \/ LET page == RestPage(srv[f], fx[f].page, pageSize)
              all == fx[f].items \o page IN
          IF GhIsLastPage(page, pageSize)
          THEN fx' = [fx EXCEPT ![f].pc = "returned", ![f].requests = @ + 1,
                                ![f].items = all, ![f].value = all]
          ELSE fx' = [fx EXCEPT ![f].page = @ + 1, ![f].requests = @ + 1,
                                ![f].items = all]
       \/ GhCatch(f)
    /\ UNCHANGED <<srv, pageSize, xOpts, xMain>>

\* fetchUserEvents: one pass of while (true)
GhEventsPage ==
    /\ "events" \in DOMAIN fx
    /\ fx["events"].pc = "request"
    /\ \/ LET page == RestPage(srv["events"], fx["events"].page, pageSize)
              all == fx["events"].items \o SelectSeq2(page, {"watch", "push"}) IN
          IF Len(page) < pageSize \/ page[Len(page)] = "old"
          THEN fx' = [fx EXCEPT !["events"].pc = "returned", !["events"].requests = @ + 1,
                                !["events"].items = all, !["events"].value = all]
          ELSE fx' = [fx EXCEPT !["events"].page = @ + 1, !["events"].requests = @ + 1,
                                !["events"].items = all]
       \/ GhCatch("events")
    /\ UNCHANGED <<srv, pageSize, xOpts, xMain>>

\* fetchCommits: octokit.users.getAuthenticated()
GhCommitsUser ==
    /\ "commits" \in DOMAIN fx
    /\ fx["commits"].pc = "getAuthenticated"
    /\ \/ fx' = [fx EXCEPT !["commits"].pc = "request", !["commits"].requests = @ + 1]
       \/ GhCatch("commits")
    /\ UNCHANGED <<srv, pageSize, xOpts, xMain>>

\* fetchCommits: one pass of while (true)
GhCommitsPage ==
    /\ "commits" \in DOMAIN fx
    /\ fx["commits"].pc = "request"
    /\ \/ LET page == RestPage(srv["commits"], fx["commits"].page, pageSize)
              all == fx["commits"].items \o page IN
          IF GhIsLastPage(page, pageSize)
          THEN fx' = [fx EXCEPT !["commits"].pc = "details", !["commits"].requests = @ + 1,
                                !["commits"].items = all]
          ELSE fx' = [fx EXCEPT !["commits"].page = @ + 1, !["commits"].requests = @ + 1,
                                !["commits"].items = all]
       \/ GhCatch("commits")
    /\ UNCHANGED <<srv, pageSize, xOpts, xMain>>

\* fetchCommits: for (let i = 0; i < commits.length; i += batchSize): the
\* batch commits.slice(i, i + batchSize) is started, all its fetchCommitDetails
\* calls at once; after the last batch, return commitDetails
GhCommitsBatchStart ==
    /\ "commits" \in DOMAIN fx
    /\ fx["commits"].pc = "details"
    /\ LET c == fx["commits"] IN
       IF c.i < Len(c.items)
       THEN fx' = [fx EXCEPT !["commits"].pc = "batch",
                             !["commits"].inFlight =
                                {j \in 1..Len(c.items) :
                                   c.i < j /\ j <= c.i + CommitBatchSize}]
       ELSE fx' = [fx EXCEPT !["commits"].pc = "returned"]
    /\ UNCHANGED <<srv, pageSize, xOpts, xMain>>

\* fetchCommitDetails of one commit of the batch ends: the details, or null
\* when the request failed (it catches its own error)
GhCommitDetails(j) ==
    /\ "commits" \in DOMAIN fx
    /\ fx["commits"].pc = "batch"
    /\ j \in fx["commits"].inFlight
    /\ \E ok \in BOOLEAN :
         fx' = [fx EXCEPT !["commits"].inFlight = @ \ {j},
                          !["commits"].got = IF ok THEN @ \union {j} ELSE @]
    /\ UNCHANGED <<srv, pageSize, xOpts, xMain>>

\* await Promise.all(batch) resumes: commitDetails.push(...filter(Boolean))
GhCommitsBatchEnd ==
    /\ "commits" \in DOMAIN fx
    /\ fx["commits"].pc = "batch"
    /\ fx["commits"].inFlight = {}
    /\ LET c == fx["commits"]
           batch == SubSeqFrom(c.items, c.i, CommitBatchSize)
       IN fx' = [fx EXCEPT !["commits"].pc = "details",
                           !["commits"].i = @ + CommitBatchSize,
                           !["commits"].got = {},
                           !["commits"].value = @ \o SelectSeq2(batch, c.got)]
    /\ UNCHANGED <<srv, pageSize, xOpts, xMain>>

\* fetchAllTranscripts: one pass of while (hasMore); fetchTranscriptsPage exits
\* the process when the request fails
FirefliesPage ==
    /\ "transcripts" \in DOMAIN fx
    /\ fx["transcripts"].pc = "request"
    /\ \/ LET skip == (fx["transcripts"].page - 1) * pageSize
              page == SkipPage(srv["transcripts"], skip, pageSize) IN
          IF Len(page) = 0
          THEN Returned("transcripts", fx["transcripts"].items)
          ELSE fx' = [fx EXCEPT !["transcripts"].page = @ + 1,
                                !["transcripts"].requests = @ + 1,
                                !["transcripts"].items = @ \o page]
       \/ fx' = [fx EXCEPT !["transcripts"].pc = "exit1",
                           !["transcripts"].requests = @ + 1,
                           !["transcripts"].failed = TRUE]
    /\ UNCHANGED <<srv, pageSize, xOpts, xMain>>

\* fetchProjectIssues: one pass of while (hasNextPage); page - 1 is the cursor
LinearIssuesPage ==
    /\ "linearIssues" \in DOMAIN fx
    /\ fx["linearIssues"].pc = "request"
    /\ \/ LET data == CursorPage(srv["linearIssues"], fx["linearIssues"].page - 1, pageSize)
              all == fx["linearIssues"].items \o data.nodes IN
          IF data.hasNextPage
          THEN fx' = [fx EXCEPT !["linearIssues"].page = data.endCursor + 1,
                                !["linearIssues"].requests = @ + 1,
                                !["linearIssues"].items = all]
          ELSE fx' = [fx EXCEPT !["linearIssues"].pc = "returned",
                                !["linearIssues"].requests = @ + 1,
                                !["linearIssues"].items = all,
                                !["linearIssues"].value = all]
       \/ fx' = [fx EXCEPT !["linearIssues"].pc = "threw",
                           !["linearIssues"].requests = @ + 1,
                           !["linearIssues"].failed = TRUE]
    /\ UNCHANGED <<srv, pageSize, xOpts, xMain>>

ZendeskReachedMaxOver(maxTickets, have) == maxTickets # 0 /\ have > maxTickets

\* fetchTickets: if (maxTickets && allTickets.length >= maxTickets)
ZendeskReachedMax(maxTickets, have) == maxTickets # 0 /\ have >= maxTickets

\* fetchTickets: one pass of while (hasMore); a failed request is caught in the
\* loop, which ends it
ZendeskPage ==
    /\ "tickets" \in DOMAIN fx
    /\ fx["tickets"].pc = "request"
    /\ \/ LET data == SearchPage(srv["tickets"], fx["tickets"].page, pageSize)
              have == Len(fx["tickets"].items)
              max == xOpts.maxTickets
              resultsToProcess ==
                  IF max # 0 /\ have + Len(data.results) > max
                  THEN SubSeq(data.results, 1, max - have)
                  ELSE data.results
              all == fx["tickets"].items \o resultsToProcess IN
          IF Len(data.results) > 0
          THEN IF ZendeskReachedMax(max, Len(all))
               THEN Returned("tickets", all) /\ UNCHANGED xMain
               ELSE IF data.next_page # 0
               THEN /\ fx' = [fx EXCEPT !["tickets"].page = data.next_page,
                                        !["tickets"].requests = @ + 1,
                                        !["tickets"].items = all]
                    /\ UNCHANGED xMain
               ELSE /\ fx' = [fx EXCEPT !["tickets"].pc = "returned",
                                        !["tickets"].requests = @ + 1,
                                        !["tickets"].items = all,
                                        !["tickets"].value = all]
                    /\ UNCHANGED xMain
          ELSE Returned("tickets", fx["tickets"].items) /\ UNCHANGED xMain
       \/ /\ fx' = [fx EXCEPT !["tickets"].pc = "returned",
                              !["tickets"].requests = @ + 1,
                              !["tickets"].failed = TRUE,
                              !["tickets"].value = fx["tickets"].items]
          /\ UNCHANGED xMain
    /\ UNCHANGED <<srv, pageSize, xOpts>>

\* Zendesk main: format the tickets, write them out, process.exit(0)
ZendeskOutput ==
    /\ tool = "zendesk"
    /\ xMain.pc = "fetching"
    /\ fx["tickets"].pc = "returned"
    /\ xMain' = [pc |-> "exited", files |-> 1, exit |-> "0"]
    /\ UNCHANGED <<srv, pageSize, fx, xOpts>>

\* exportGitHubActivity, the daily loop: new Date(x.created_at).toISOString()
\* is evaluated for every pull request and issue of summary.*.details and every
\* repository of summary.stars, none of which has a created_at property.
DailySummaryThrows(prs, issues, events) ==
    \/ Len(prs) > 0
    \/ Len(issues) > 0
    \/ \E i \in 1..Len(events) : events[i] = "watch"

\* exportGitHubActivity: Promise.all of the four fetchers resolves; the summary is built
Gh2mdSummary ==
    /\ tool = "gh2md"
    /\ xMain.pc = "fetching"
    /\ \A f \in DOMAIN fx : fx[f].pc = "returned"
    /\ xMain' = [xMain EXCEPT !.pc = "daily"]
    /\ UNCHANGED <<srv, pageSize, fx, xOpts>>

\* exportGitHubActivity: one pass of while (currentDate <= endDate), or its end;
\* an exception goes to the catch, which exits with 1
Gh2mdDay ==
    /\ tool = "gh2md"
    /\ xMain.pc = "daily"
    /\ IF xMain.files = xOpts.days
       THEN xMain' = [xMain EXCEPT !.pc = "exited", !.exit = "0"]
       ELSE IF DailySummaryThrows(fx["prs"].value, fx["issues"].value, fx["events"].value)
       THEN xMain' = [xMain EXCEPT !.pc = "exited", !.exit = "1"]
       ELSE xMain' = [xMain EXCEPT !.files = @ + 1]
    /\ UNCHANGED <<srv, pageSize, fx, xOpts>>

NextFetchers ==
    \/ \E f \in {"prs", "issues"} : GhSearchPage(f)
    \/ FirefliesPage
    \/ LinearIssuesPage

NextGh2md ==
    \/ \E f \in {"prs", "issues"} : GhSearchPage(f)
    \/ GhEventsPage
    \/ GhCommitsUser
    \/ GhCommitsPage
    \/ GhCommitsBatchStart
    \/ \E j \in 1..MaxItems : GhCommitDetails(j)
    \/ GhCommitsBatchEnd
    \/ Gh2mdSummary
    \/ Gh2mdDay

\* What fetchPage can meet: a page with its JSON-LD data (whose review list
\* may be empty), a 404, a page without the data script, JSON that does not
\* parse, a failed request
PageOutcomes == {"data", "404", "noData", "parseError", "fetchError"}

\* fetchPage: the mapped reviews of the page, or null
TrustpilotFetchPage(outcome, reviews) ==
    IF outcome = "data" THEN [null |-> FALSE, reviews |-> reviews]
                        ELSE [null |-> TRUE, reviews |-> <<>>]

\* getAllReviews: one pass of while (hasMore): if (!reviews) hasMore = false,
\* else push and page++; an array, even an empty one, is truthy
TrustpilotPage ==
    /\ "reviews" \in DOMAIN fx
    /\ fx["reviews"].pc = "request"
    /\ fx["reviews"].page <= MaxReviewPages
    /\ \E outcome \in PageOutcomes :
         LET onSite == RestPage(srv["reviews"], fx["reviews"].page, pageSize)
             reviews == TrustpilotFetchPage(outcome, onSite) IN
         IF reviews.null
         THEN fx' = [fx EXCEPT !["reviews"].pc = "returned",
                               !["reviews"].requests = @ + 1,
                               !["reviews"].failed = (onSite # <<>>),
                               !["reviews"].value = fx["reviews"].items]
         ELSE fx' = [fx EXCEPT !["reviews"].page = @ + 1,
                               !["reviews"].requests = @ + 1,
                               !["reviews"].items = @ \o reviews.reviews]
    /\ UNCHANGED <<srv, pageSize, xOpts, xMain>>

NextTrustpilot == TrustpilotPage

NextCommits ==
    \/ GhCommitsUser
    \/ GhCommitsPage
    \/ GhCommitsBatchStart
    \/ \E j \in 1..MaxItems : GhCommitDetails(j)
    \/ GhCommitsBatchEnd

NextZendesk ==
    \/ ZendeskPage
    \/ ZendeskOutput

----------------------------------------------------------------------------
(* Date ranges *)

\* A date argument: a YYYY-MM-DD day (numbered from 1), a string that is no
\* date, or (Zendesk only, whose date options are optional) no argument.
DateArgs ==
    {[kind |-> "unparseable", day |-> 0]} \union
    {[kind |-> "date", day |-> d] : d \in 1..MaxDay}

AbsentArg == [kind |-> "absent", day |-> 0]

\* Instants: two per day, midnight UTC (2 * day) and any later time of that
\* day (2 * day + 1). new Date("YYYY-MM-DD") is midnight UTC of the day; new
\* Date of another string is an Invalid Date, whose time value is NaN.
NewDate(arg) ==
    IF arg.kind = "date" THEN [nan |-> FALSE, t |-> 2 * arg.day]
    ELSE [nan |-> TRUE, t |-> 0]

\* new Date(item.created_at) for an item created on `day`, at midnight or later
InstantOf(item) == [nan |-> FALSE, t |-> 2 * item.day + (IF item.later THEN 1 ELSE 0)]

\* a < b and a <= b on Date objects: false when either is NaN
DateLt(a, b) == ~a.nan /\ ~b.nan /\ a.t < b.t

DateLe(a, b) == ~a.nan /\ ~b.nan /\ a.t <= b.t

\* isValidDate: date instanceof Date && !isNaN(date)
IsValidDate(arg) == ~NewDate(arg).nan

\* The scripts that validate their dates at start-up
ValidatingTools == {"gh2md", "fireflies2md", "readwise2md", "gmail2md"}

\* The scripts that filter the items themselves: gh2md fetchUserEvents,
\* readwise2md isHighlightInDateRange. The others send the range to the service.
FilteringTools == {"gh2md", "readwise2md"}

\* eventDate >= since && eventDate <= until; date >= startDate && date <= endDate
IsInDateRange(date, since, until) == DateLe(since, date) /\ DateLe(date, until)

DatesStart ==
    /\ dTool \in ValidatingTools \union {"zendesk"}
    /\ dArgs \in [start : DateArgs \union {AbsentArg}, end : DateArgs \union {AbsentArg}]
    /\ dTool \in ValidatingTools => (dArgs.start # AbsentArg /\ dArgs.end # AbsentArg)
    /\ dItem \in [day : 1..MaxDay, later : BOOLEAN]
    /\ dPc = "start"
    /\ dRequests = 0
    /\ dIncluded = "undecided"

DatesIdle ==
    /\ dTool = "none"
    /\ dArgs = [start |-> AbsentArg, end |-> AbsentArg]
    /\ dItem = [day |-> 1, later |-> FALSE]
    /\ dPc = "idle"
    /\ dRequests = 0
    /\ dIncluded = "undecided"

\* Module level of gh2md, fireflies2md, readwise2md, gmail2md: both dates must
\* parse and the end must not be before the start, else process.exit(1)
ValidateDates ==
    /\ dPc = "start"
    /\ dTool \in ValidatingTools
    /\ dPc' = IF ~IsValidDate(dArgs.start) \/ ~IsValidDate(dArgs.end) THEN "exit1"
              ELSE IF DateLt(NewDate(dArgs.end), NewDate(dArgs.start)) THEN "exit1"
              ELSE "export"
    /\ UNCHANGED <<dTool, dArgs, dItem, dRequests, dIncluded>>

\* Zendesk main: the options are handed to fetchTickets as they are, which
\* puts them into the search query
ZendeskDates ==
    /\ dPc = "start"
    /\ dTool = "zendesk"
    /\ dPc' = "export"
    /\ UNCHANGED <<dTool, dArgs, dItem, dRequests, dIncluded>>

\* The first request of the export is sent
DatesRequest ==
    /\ dPc = "export"
    /\ dRequests' = dRequests + 1
    /\ dPc' = IF dTool \in FilteringTools THEN "filter" ELSE "done"
    /\ UNCHANGED <<dTool, dArgs, dItem, dIncluded>>

\* gh2md fetchUserEvents / readwise2md isHighlightInDateRange on the item
DatesFilter ==
    /\ dPc = "filter"
    /\ dIncluded' = IF IsInDateRange(InstantOf(dItem), NewDate(dArgs.start),
                                     NewDate(dArgs.end))
                    THEN "included" ELSE "excluded"
    /\ dPc' = "done"
    /\ UNCHANGED <<dTool, dArgs, dItem, dRequests>>

NextDates ==
    \/ ValidateDates
    \/ ZendeskDates
    \/ DatesRequest
    \/ DatesFilter

----------------------------------------------------------------------------
(* isp2ynab *)

\* The date cell: a string of the shape DD/MM/YY with its three numbers, a
\* string of another shape, a value that is no string, or an empty cell.
DateCellOf(kind, day, month, year) ==
    [kind |-> kind, day |-> day, month |-> month, year |-> year]

YearFields == {0, 23, 24, 99}

DateCells ==
    {DateCellOf("ddmmyy", d, m, y) :
       d \in 0..MaxDayField, m \in 0..MaxMonthField, y \in YearFields}
    \union {DateCellOf(k, 0, 0, 0) : k \in {"otherString", "number", "empty"}}

\* Characters of an amount cell
CellChars == {"-", "€", " ", "1", ".", ","}

AmountCells == UNION {[1..n -> CellChars] : n \in 0..MaxCellLen}

\* Date: days of a month of the Gregorian calendar, month from 1
IsLeapYear(y) == (y % 4 = 0 /\ y % 100 # 0) \/ y % 400 = 0

DaysInMonth(y, m) ==
    IF m = 2 THEN (IF IsLeapYear(y) THEN 29 ELSE 28)
    ELSE IF m \in {4, 6, 9, 11} THEN 30
    ELSE 31

\* new Date(year, monthIndex, day): fields out of range carry over
RECURSIVE JsDate(_, _, _)
JsDate(y, monthIndex, d) ==
    IF monthIndex < 0 \/ monthIndex > 11
    THEN JsDate(y + (monthIndex \div 12), monthIndex % 12, d)
    ELSE IF d < 1
    THEN LET py == IF monthIndex = 0 THEN y - 1 ELSE y
             pm == IF monthIndex = 0 THEN 11 ELSE monthIndex - 1
         IN JsDate(py, pm, d + DaysInMonth(py, pm + 1))
    ELSE IF d > DaysInMonth(y, monthIndex + 1)
    THEN JsDate(y, monthIndex + 1, d - DaysInMonth(y, monthIndex + 1))
    ELSE [getFullYear |-> y, getMonth |-> monthIndex, getDate |-> d]

\* isValidDate: the year given to the Date constructor
IspFullYearOf1900(year) == 1900 + year

IspFullYear(year) == 2000 + year

\* isValidDate(dateStr)
IspIsValidDate(dateStr) ==
    IF dateStr.kind # "ddmmyy" THEN FALSE
    ELSE LET date == JsDate(IspFullYear(dateStr.year), dateStr.month - 1, dateStr.day)
         IN /\ date.getDate = dateStr.day
            /\ date.getMonth + 1 = dateStr.month
            /\ date.getFullYear % 100 = dateStr.year

\* formatDate: `20${year}-${month}-${day}`
FormatDate(dateStr) == <<2000 + dateStr.year, dateStr.month, dateStr.day>>

\* String.prototype.replace(ch, ''): the first occurrence only
RECURSIVE ReplaceFirst(_, _)
ReplaceFirst(str, ch) ==
    IF str = <<>> THEN <<>>
    ELSE IF Head(str) = ch THEN Tail(str)
    ELSE <<Head(str)>> \o ReplaceFirst(Tail(str), ch)

\* String.prototype.replace(/[...]/g, ''): every character of the class
RECURSIVE ReplaceAll(_, _)
ReplaceAll(str, class) ==
    IF str = <<>> THEN <<>>
    ELSE (IF Head(str) \in class THEN <<>> ELSE <<Head(str)>>)
         \o ReplaceAll(Tail(str), class)

\* processExcelBuffer: row[4] ? row[4].toString().replace('-', '') : '', then
\* replace(/[€\s]/g, '')
OutflowOf(cell) == ReplaceAll(ReplaceFirst(cell, "-"), {"€", " "})

IspStart ==
    /\ \/ \E date \in DateCells : iRow = [date |-> date, outflow |-> <<>>]
       \/ \E date \in {DateCellOf("ddmmyy", 29, 2, 24), DateCellOf("ddmmyy", 31, 4, 24)},
             outflow \in AmountCells :
            iRow = [date |-> date, outflow |-> outflow]
    /\ iPc = "filter"
    /\ iOut = [Date |-> <<>>, Outflow |-> <<>>]

IspIdle ==
    /\ iRow = [date |-> DateCellOf("empty", 0, 0, 0), outflow |-> <<>>]
    /\ iPc = "idle"
    /\ iOut = [Date |-> <<>>, Outflow |-> <<>>]

\* dataRows.filter(row => row[0] && isValidDate(row[0]))
IspFilter ==
    /\ iPc = "filter"
    /\ iPc' = IF iRow.date.kind # "empty" /\ IspIsValidDate(iRow.date)
              THEN "map" ELSE "dropped"
    /\ UNCHANGED <<iRow, iOut>>

\* .map(row => ({ Date, Payee, Memo, Outflow, Inflow }))
IspMap ==
    /\ iPc = "map"
    /\ iOut' = [Date |-> FormatDate(iRow.date), Outflow |-> OutflowOf(iRow.outflow)]
    /\ iPc' = "emitted"
    /\ UNCHANGED iRow

NextIsp ==
    \/ IspFilter
    \/ IspMap

----------------------------------------------------------------------------
(* gawk / ai-file-transformer: applying the changes to the directory *)

\* Paths of the directory: those of the input files (file i is at path i) and
\* one more. In rDir, 0 is no file; a file holds the content of input file i,
\* as it was or transformed.
RenamePaths == 1..(MaxRenameFiles + 1)

FreshRenameTask ==
    [pc |-> "queued", content |-> 0, newFilepath |-> 0, contentChanged |-> FALSE,
     nameChanged |-> FALSE, success |-> FALSE]

RenameRunning == Cardinality({i \in DOMAIN rTask : rTask[i].pc \notin {"queued", "done"}})

RenameStart ==
    /\ rOptions \in [concurrency : 1..MaxConcurrency, contentPrompt : BOOLEAN,
                     backup : BOOLEAN]
    /\ \E n \in 1..MaxRenameFiles :
         /\ rDir = [q \in RenamePaths |-> IF q <= n THEN q ELSE 0]
         /\ rTask = [i \in 1..n |-> FreshRenameTask]
         /\ rBackup = [i \in 1..n |-> 0]

RenameIdle ==
    /\ rOptions = [concurrency |-> 1, contentPrompt |-> FALSE, backup |-> FALSE]
    /\ rDir = [q \in RenamePaths |-> 0]
    /\ rTask = <<>>
    /\ rBackup = <<>>

\* processFile: the backup, when asked for, comes before applyTransformations
RenameFirstStep(backup) == IF backup THEN "backupFile" ELSE "applyTransformations"

\* p-limit starts the next task in input order while fewer than `concurrency` run
RenameTaskStart(i) ==
    /\ rTask[i].pc = "queued"
    /\ \A j \in 1..(i - 1) : rTask[j].pc # "queued"
    /\ PLimitMayRun(RenameRunning, rOptions.concurrency)
    /\ rTask' = [rTask EXCEPT ![i].pc = RenameFirstStep(rOptions.backup)]
    /\ UNCHANGED <<rOptions, rDir, rBackup>>

\* processFile: if (this.options.backup) await this.backupFile(filepath);
\* copyFile of a missing file throws, and processFile returns the failure
RenameBackup(i) ==
    /\ rTask[i].pc = "backupFile"
    /\ IF rDir[i] = 0
       THEN /\ rTask' = [rTask EXCEPT ![i].pc = "done"]
            /\ rBackup' = rBackup
       ELSE /\ rTask' = [rTask EXCEPT ![i].pc = "applyTransformations"]
            /\ rBackup' = [rBackup EXCEPT ![i] = rDir[i]]
    /\ UNCHANGED <<rOptions, rDir>>

\* applyTransformations up to applyChanges: readFile and transformContent when
\* there is a content prompt, then transformFilename; a missing file is an error
RenameTransform(i) ==
    /\ rTask[i].pc = "applyTransformations"
    /\ IF rOptions.contentPrompt /\ rDir[i] = 0
       THEN rTask' = [rTask EXCEPT ![i].pc = "done"]
       ELSE \E newFilepath \in RenamePaths,
               contentChanged \in (IF rOptions.contentPrompt THEN BOOLEAN ELSE {FALSE}) :
              rTask' = [rTask EXCEPT
                          ![i].pc = "applyChanges",
                          ![i].content = IF rOptions.contentPrompt THEN rDir[i] ELSE 0,
                          ![i].newFilepath = newFilepath,
                          ![i].contentChanged = contentChanged,
                          ![i].nameChanged = (newFilepath # i)]
    /\ UNCHANGED <<rOptions, rDir, rBackup>>

\* applyChanges: writeFile(newFilepath) (then unlink), writeFile(filepath),
\* or rename(filepath, newFilepath); rename of a missing file is an error
RenameApplyChanges(i) ==
    /\ rTask[i].pc = "applyChanges"
    /\ LET t == rTask[i] IN
       IF ~t.contentChanged /\ ~t.nameChanged
       THEN /\ rTask' = [rTask EXCEPT ![i].pc = "done", ![i].success = TRUE]
            /\ rDir' = rDir
       ELSE IF t.contentChanged /\ t.nameChanged
       THEN /\ rDir' = [rDir EXCEPT ![t.newFilepath] = t.content]
            /\ rTask' = [rTask EXCEPT ![i].pc = "unlink"]
       ELSE IF t.contentChanged
       THEN /\ rDir' = [rDir EXCEPT ![i] = t.content]
            /\ rTask' = [rTask EXCEPT ![i].pc = "done", ![i].success = TRUE]
       ELSE IF rDir[i] = 0
       THEN /\ rDir' = rDir
            /\ rTask' = [rTask EXCEPT ![i].pc = "done"]
       ELSE /\ rDir' = [rDir EXCEPT ![t.newFilepath] = rDir[i], ![i] = 0]
            /\ rTask' = [rTask EXCEPT ![i].pc = "done", ![i].success = TRUE]
    /\ UNCHANGED <<rOptions, rBackup>>

\* applyChanges: await fs.unlink(filepath) after the write to the new path
RenameUnlink(i) ==
    /\ rTask[i].pc = "unlink"
    /\ IF rDir[i] = 0
       THEN /\ rDir' = rDir
            /\ rTask' = [rTask EXCEPT ![i].pc = "done"]
       ELSE /\ rDir' = [rDir EXCEPT ![i] = 0]
            /\ rTask' = [rTask EXCEPT ![i].pc = "done", ![i].success = TRUE]
    /\ UNCHANGED <<rOptions, rBackup>>

NextRename ==
    \/ \E i \in DOMAIN rTask : RenameTaskStart(i)
    \/ \E i \in DOMAIN rTask : RenameBackup(i)
    \/ \E i \in DOMAIN rTask : RenameTransform(i)
    \/ \E i \in DOMAIN rTask : RenameApplyChanges(i)
    \/ \E i \in DOMAIN rTask : RenameUnlink(i)

----------------------------------------------------------------------------
(* gmail2md: exportThreads *)

\* gmail.users.threads.list: the page that starts after `pageToken` threads
\* (0: no token, the first page) and the token of the next page (0: none)
GmailList(pageToken) ==
    LET list == Numbered(mThreads) IN
    [threads |-> SubSeqFrom(list, pageToken, mPageSize),
     nextPageToken |-> IF pageToken + mPageSize < mThreads
                       THEN pageToken + mPageSize ELSE 0]

\* listThreads(gmail, query, pageToken = null) as exportThreads calls it, with
\* two arguments: the second one binds to `query`, pageToken keeps its default
ListThreadsToken(secondArgument) == 0

GmailStart ==
    /\ mThreads \in 0..MaxThreads
    /\ mPageSize \in 1..MaxPageSize
    /\ mx = [pc |-> "initial", pageToken |-> 0, threads |-> <<>>,
             nextPageToken |-> 0, sent |-> <<>>, received |-> <<>>,
             handled |-> [t \in 1..mThreads |-> 0],
             totalProcessed |-> 0, totalSkipped |-> 0, exit |-> "running"]

GmailIdle ==
    /\ mThreads = 0
    /\ mPageSize = 1
    /\ mx = [pc |-> "idle"]

\* listThreads rejects: console.error, process.exit(1)
GmailListFails ==
    mx' = [mx EXCEPT !.pc = "exited", !.exit = "1"]

\* const initialThreads = await listThreads(gmail, null), for the progress bar
GmailInitialList ==
    /\ mx.pc = "initial"
    /\ \/ mx' = [mx EXCEPT !.pc = "list"]
       \/ GmailListFails
    /\ UNCHANGED <<mThreads, mPageSize>>

\* do { const threads = await listThreads(gmail, pageToken)
GmailListThreads ==
    /\ mx.pc = "list"
    /\ Len(mx.sent) < MaxGmailRequests
    /\ \/ LET token == ListThreadsToken(mx.pageToken)
              data == GmailList(token) IN
          mx' = [mx EXCEPT !.pc = "batches",
                           !.threads = data.threads,
                           !.nextPageToken = data.nextPageToken,
                           !.sent = Append(@, token),
                           !.received = Append(@, data.nextPageToken)]
       \/ GmailListFails
    /\ UNCHANGED <<mThreads, mPageSize>>

\* the batches of the page (each thread goes through processThreadBatch, which
\* counts it as processed or skipped), then pageToken = threads.nextPageToken
\* and while (pageToken)
GmailProcessPage ==
    /\ mx.pc = "batches"
    /\ \E processed \in 0..Len(mx.threads) :
         mx' = [mx EXCEPT
                  !.pc = IF mx.nextPageToken # 0 THEN "list" ELSE "exited",
                  !.exit = IF mx.nextPageToken # 0 THEN "running" ELSE "0",
                  !.pageToken = mx.nextPageToken,
                  !.handled = [t \in DOMAIN @ |->
                                 IF t \in Range(mx.threads) THEN @[t] + 1 ELSE @[t]],
                  !.totalProcessed = @ + processed,
                  !.totalSkipped = @ + (Len(mx.threads) - processed)]
    /\ UNCHANGED <<mThreads, mPageSize>>

NextGmail ==
    \/ GmailInitialList
    \/ GmailListThreads
    \/ GmailProcessPage

----------------------------------------------------------------------------
(* feed2llm: the rate-limited HTTP client *)

\* http.interceptors.request: const waitTime = options.delay - (now - lastRequestTime)
WaitTime(delay, now, last) == delay - (now - last)

\* let lastRequestTime = Date.now(), at module load; the requests of the
\* processArticle calls that run together have not reached the interceptor
HttpStart ==
    /\ hNow = 0
    /\ lastRequestTime = 0
    /\ hDelay \in 1..MaxDelay
    /\ \E n \in 1..MaxHttpRequests :
         hReq = [r \in 1..n |-> [pc |-> "notSent", wake |-> 0, leftAt |-> 0]]

HttpIdle ==
    /\ hNow = 0
    /\ lastRequestTime = 0
    /\ hDelay = 1
    /\ hReq = <<>>

\* Time passes (a timer may fire later than its delay, never earlier)
HttpTick ==
    /\ hNow < MaxTime
    /\ hNow' = hNow + 1
    /\ UNCHANGED <<lastRequestTime, hDelay, hReq>>

\* http.get(url) enters the interceptor: if (waitTime > 0) await the timer;
\* otherwise lastRequestTime = Date.now() and the request leaves
InterceptorEnter(r) ==
    /\ hReq[r].pc = "notSent"
    /\ LET waitTime == WaitTime(hDelay, hNow, lastRequestTime) IN
       IF waitTime > 0
       THEN /\ hReq' = [hReq EXCEPT ![r].pc = "waiting", ![r].wake = hNow + waitTime]
            /\ UNCHANGED lastRequestTime
       ELSE /\ hReq' = [hReq EXCEPT ![r].pc = "left", ![r].leftAt = hNow]
            /\ lastRequestTime' = hNow
    /\ UNCHANGED <<hNow, hDelay>>

\* the timer fires: lastRequestTime = Date.now(); return config
InterceptorResume(r) ==
    /\ hReq[r].pc = "waiting"
    /\ hNow >= hReq[r].wake
    /\ hReq' = [hReq EXCEPT ![r].pc = "left", ![r].leftAt = hNow]
    /\ lastRequestTime' = hNow
    /\ UNCHANGED <<hNow, hDelay>>

NextHttp ==
    \/ HttpTick
    \/ \E r \in DOMAIN hReq : InterceptorEnter(r)
    \/ \E r \in DOMAIN hReq : InterceptorResume(r)

----------------------------------------------------------------------------
(* gawk / ai-file-transformer: validateFilenameResponse *)

\* CONFIG.MAX_FILENAME_LENGTH, config.js
MAX_FILENAME_LENGTH == 255

\* A name is kept by what the function looks at: its length, the quote
\* characters at its two ends (counted in the length), and the length of its
\* path.extname, dot included (0: none).
FilenameResponses ==
    [len : (MAX_FILENAME_LENGTH - MaxUnder)..(MAX_FILENAME_LENGTH + MaxOver),
     quotes : 0..2,
     ext : 0..MaxExtLen]

\* The length of what validateFilenameResponse returns: strip the quotes,
\* append originalExt when the response has no extension, cut to
\* MAX_FILENAME_LENGTH - 4 and append originalExt when too long; replacing the
\* invalid characters by '_' keeps the length.
ValidateFilenameLength(response, originalExt) ==
    LET stripped == response.len - response.quotes
        withExt == IF originalExt # 0 /\ response.ext = 0
                   THEN stripped + originalExt ELSE stripped
    IN IF withExt > MAX_FILENAME_LENGTH
       THEN (MAX_FILENAME_LENGTH - 4) + originalExt
       ELSE withExt

ValidateStart ==
    /\ vResponse \in FilenameResponses
    /\ vOriginalExt \in 0..MaxExtLen
    /\ vReturned = 0

ValidateIdle ==
    /\ vResponse = [len |-> 0, quotes |-> 0, ext |-> 0]
    /\ vOriginalExt = 0
    /\ vReturned = 0

\* transformFilename: const validatedName = await validateFilenameResponse(newName, oldName)
ValidateFilenameResponse ==
    /\ vReturned = 0
    /\ vReturned' = ValidateFilenameLength(vResponse, vOriginalExt)
    /\ UNCHANGED <<vResponse, vOriginalExt>>

NextValidate == ValidateFilenameResponse

----------------------------------------------------------------------------
(* receipt2fic: main *)

\* The awaited calls of the loop body of main, in order
PageSteps == <<"analyzeReceiptWithClaude", "validateOutput", "uploadAttachment",
               "createReceivedDocument">>

ReceiptStart ==
    /\ cPages \in 1..MaxPages
    /\ cx = [pc |-> "splitPDFIntoPages", page |-> 0, step |-> 0, failed |-> {},
             documents |-> {}, printed |-> FALSE, exit |-> "running"]

ReceiptIdle ==
    /\ cPages = 0
    /\ cx = [pc |-> "idle"]

\* The loop goes to page `page`, or past the last page to cleanupPageFiles
ReceiptGoTo(page) ==
    IF page <= cPages THEN [pc |-> "page", page |-> page, step |-> 1]
                      ELSE [pc |-> "cleanupPageFiles", page |-> page, step |-> 0]

\* const pageFiles = await splitPDFIntoPages(options.file); when it throws,
\* main's outer catch logs the error and exits with 1
ReceiptSplit ==
    /\ cx.pc = "splitPDFIntoPages"
    /\ \/ LET to == ReceiptGoTo(1) IN
          cx' = [cx EXCEPT !.pc = to.pc, !.page = to.page, !.step = to.step]
       \/ cx' = [cx EXCEPT !.pc = "exited", !.exit = "1"]
    /\ UNCHANGED cPages

\* One awaited call of the loop body: it returns and the body goes on (after
\* createReceivedDocument, to the next page), or it throws and the inner
\* catch logs "Failed to process page" and the loop goes to the next page
ReceiptPageStep ==
    /\ cx.pc = "page"
    /\ \/ IF cx.step < Len(PageSteps)
          THEN cx' = [cx EXCEPT !.step = @ + 1]
          ELSE LET to == ReceiptGoTo(cx.page + 1) IN
               cx' = [cx EXCEPT !.pc = to.pc, !.page = to.page, !.step = to.step,
                                !.documents = @ \union {cx.page}]
       \/ LET to == ReceiptGoTo(cx.page + 1) IN
          cx' = [cx EXCEPT !.pc = to.pc, !.page = to.page, !.step = to.step,
                           !.failed = @ \union {cx.page}]
    /\ UNCHANGED cPages

\* await cleanupPageFiles(pageFiles), which catches its own errors, then
\* console.log('All pages processed successfully!'); main returns
ReceiptCleanup ==
    /\ cx.pc = "cleanupPageFiles"
    /\ cx' = [cx EXCEPT !.pc = "exited", !.printed = TRUE, !.exit = "0"]
    /\ UNCHANGED cPages

NextReceipt ==
    \/ ReceiptSplit
    \/ ReceiptPageStep
    \/ ReceiptCleanup

----------------------------------------------------------------------------
(* Specifications *)

InitOf(t) ==
    /\ tool = t
    /\ IF t = "gawk" THEN GawkStart ELSE GawkIdle
    /\ IF t = "nugget" THEN NuggetStart ELSE NuggetIdle
    /\ CASE t = "feed2llm" -> FeedStart
         [] t = "feed2llm-chunks" -> FeedChunksStart
         [] OTHER -> FeedIdle
    /\ CASE t = "fetch" -> FetchUnitStart
         [] t = "gh2md" -> Gh2mdStart
         [] t = "fetchCommits" -> FetchCommitsStart
         [] t = "zendesk" -> ZendeskStart
         [] t = "trustpilot" -> TrustpilotStart
         [] OTHER -> FetchIdle
    /\ IF t = "dates" THEN DatesStart ELSE DatesIdle
    /\ IF t = "isp2ynab" THEN IspStart ELSE IspIdle
    /\ IF t = "rename" THEN RenameStart ELSE RenameIdle
    /\ IF t = "gmail2md" THEN GmailStart ELSE GmailIdle
    /\ IF t = "http" THEN HttpStart ELSE HttpIdle
    /\ IF t = "validateFilename" THEN ValidateStart ELSE ValidateIdle
    /\ IF t = "receipt2fic" THEN ReceiptStart ELSE ReceiptIdle


NextOfGawk == NextGawk /\ UNCHANGED <<tool, nuggetVars, feedVars, fetchVars, dateVars, ispVars, renameVars, gmailVars, httpVars, validateVars, receiptVars>>

NextOfNugget == NextNugget /\ UNCHANGED <<tool, gawkVars, feedVars, fetchVars, dateVars, ispVars, renameVars, gmailVars, httpVars, validateVars, receiptVars>>

NextOfFeed == NextFeed /\ UNCHANGED <<tool, gawkVars, nuggetVars, fetchVars, dateVars, ispVars, renameVars, gmailVars, httpVars, validateVars, receiptVars>>

NextOfFetchers == NextFetchers /\ UNCHANGED <<tool, gawkVars, nuggetVars, feedVars, dateVars, ispVars, renameVars, gmailVars, httpVars, validateVars, receiptVars>>

NextOfGh2md == NextGh2md /\ UNCHANGED <<tool, gawkVars, nuggetVars, feedVars, dateVars, ispVars, renameVars, gmailVars, httpVars, validateVars, receiptVars>>

NextOfCommits == NextCommits /\ UNCHANGED <<tool, gawkVars, nuggetVars, feedVars, dateVars, ispVars, renameVars, gmailVars, httpVars, validateVars, receiptVars>>

NextOfTrustpilot == NextTrustpilot /\ UNCHANGED <<tool, gawkVars, nuggetVars, feedVars, dateVars, ispVars, renameVars, gmailVars, httpVars, validateVars, receiptVars>>

NextOfZendesk == NextZendesk /\ UNCHANGED <<tool, gawkVars, nuggetVars, feedVars, dateVars, ispVars, renameVars, gmailVars, httpVars, validateVars, receiptVars>>

NextOfDates == NextDates /\ UNCHANGED <<tool, gawkVars, nuggetVars, feedVars, fetchVars, ispVars, renameVars, gmailVars, httpVars, validateVars, receiptVars>>

NextOfIsp == NextIsp /\ UNCHANGED <<tool, gawkVars, nuggetVars, feedVars, fetchVars, dateVars, renameVars, gmailVars, httpVars, validateVars, receiptVars>>

NextOfRename == NextRename /\ UNCHANGED <<tool, gawkVars, nuggetVars, feedVars, fetchVars, dateVars, ispVars, gmailVars, httpVars, validateVars, receiptVars>>

NextOfGmail == NextGmail /\ UNCHANGED <<tool, gawkVars, nuggetVars, feedVars, fetchVars, dateVars, ispVars, renameVars, httpVars, validateVars, receiptVars>>

NextOfHttp == NextHttp /\ UNCHANGED <<tool, gawkVars, nuggetVars, feedVars, fetchVars, dateVars, ispVars, renameVars, gmailVars, validateVars, receiptVars>>

NextOfValidate == NextValidate /\ UNCHANGED <<tool, gawkVars, nuggetVars, feedVars, fetchVars, dateVars, ispVars, renameVars, gmailVars, httpVars, receiptVars>>

NextOfReceipt == NextReceipt /\ UNCHANGED <<tool, gawkVars, nuggetVars, feedVars, fetchVars, dateVars, ispVars, renameVars, gmailVars, httpVars, validateVars>>

SpecGawk == InitOf("gawk") /\ [][NextOfGawk]_vars

SpecNugget == InitOf("nugget") /\ [][NextOfNugget]_vars

SpecFeed == InitOf("feed2llm") /\ [][NextOfFeed]_vars

\* The paginated fetch functions, each called on its own
SpecFetchers == InitOf("fetch") /\ [][NextOfFetchers]_vars

\* The scripts whose fetchers catch a failed page request: gh2md and Zendesk
SpecFetchExit ==
    (InitOf("gh2md") \/ InitOf("zendesk")) /\ [][NextOfGh2md \/ NextOfZendesk]_vars

\* The scripts that take a date range
SpecDates == InitOf("dates") /\ [][NextOfDates]_vars

\* isp2ynab on one row of the sheet
SpecIsp == InitOf("isp2ynab") /\ [][NextOfIsp]_vars

\* gawk's changes to the directory under p-limit
SpecRename == InitOf("rename") /\ [][NextOfRename]_vars

\* feed2llm on a feed of three items
SpecFeedChunks == InitOf("feed2llm-chunks") /\ [][NextOfFeed]_vars

\* gh2md's fetchCommits called on its own
SpecFetchCommits == InitOf("fetchCommits") /\ [][NextOfCommits]_vars

\* gmail2md's exportThreads
SpecGmail == InitOf("gmail2md") /\ [][NextOfGmail]_vars

\* The Trustpilot scrapers' getAllReviews
SpecTrustpilot == InitOf("trustpilot") /\ [][NextOfTrustpilot]_vars

\* feed2llm's request interceptor under concurrent requests
SpecHttp == InitOf("http") /\ [][NextOfHttp]_vars

\* gawk's validateFilenameResponse on one answer
SpecValidate == InitOf("validateFilename") /\ [][NextOfValidate]_vars

\* receipt2fic's main on one PDF
SpecReceipt == InitOf("receipt2fic") /\ [][NextOfReceipt]_vars

\* Both retry guards: nugget's withRetry and feed2llm's withRetry
SpecRetry ==
    (InitOf("nugget") \/ InitOf("feed2llm")) /\ [][NextOfNugget \/ NextOfFeed]_vars

\* The two batch runners: gawk's main and nugget's processFilesSequentially
SpecIsolation ==
    (InitOf("gawk") \/ InitOf("nugget")) /\ [][NextOfGawk \/ NextOfNugget]_vars

----------------------------------------------------------------------------
(* Properties *)

\* C1: gawk's mapper (pLimit(K) + Promise.all) never has more than K processFile
\* operations in flight, and once Promise.all has resolved, `results` holds
\* exactly one outcome per input file, the i-th being the outcome of the i-th
\* input file whatever the order of completion.
C1_MapperOrderAndBound ==
    /\ InFlight <= gOptions.concurrency
    /\ gMainPc \in {"report", "exit0", "exit1"} =>
         /\ Len(results) = Len(filePaths)
         /\ \A i \in 1..Len(filePaths) :
              (IF results[i].success THEN results[i].originalPath
               ELSE results[i].filepath) = filePaths[i]

\* C1 witness: three files under K = 2 completed out of input order and
\* Promise.all has resolved.
C1_Witness ==
    /\ gMainPc = "report"
    /\ Len(filePaths) = 3
    /\ gOptions.concurrency = 2
    /\ completionOrder = <<2, 1, 3>>

\* C2: a paginated fetcher (gh2md fetchPullRequests/fetchIssues, fireflies2md
\* fetchAllTranscripts, linear2llm fetchProjectIssues) that returns without any
\* request having failed returns exactly the server's N items, each once, in
\* the server's order, for every page size.
C2_FetcherReturnsAllInOrder ==
    tool = "fetch" =>
      \A f \in DOMAIN fx :
        (fx[f].pc = "returned" /\ ~fx[f].failed) => fx[f].value = srv[f]

\* C2 witness: N = kP + r (5 items, pages of 2) fetched by a gh2md search loop.
C2_Witness ==
    /\ tool = "fetch"
    /\ "prs" \in DOMAIN fx
    /\ fx["prs"].pc = "returned"
    /\ ~fx["prs"].failed
    /\ Len(srv["prs"]) = 5
    /\ pageSize = 2
    /\ fx["prs"].requests = 3

\* C3: in both retry guards, when withRetry gives up on an operation whose every
\* invocation failed with a transient error, the operation has been invoked
\* exactly N + 1 times (N = --max-retries for nugget, DEFAULTS.maxRetries for
\* feed2llm).
C3_AlwaysTransientInvokedNPlus1 ==
    /\ (/\ nPc = "withRetryDone"
        /\ nOutcome.kind = "threw"
        /\ nOutcome.value.kind = "Error"
        /\ nOutcome.value.status \in {429, 503})
       => nCalls = nMaxRetries + 1
    /\ \A k \in DOMAIN fTask :
         (/\ fTask[k].pc = "withRetrySettled"
          /\ fTask[k].retry.settled = "threw"
          /\ fTask[k].retry.error.rateLimit)
         => fTask[k].retry.calls = MaxRetries + 1

\* C4: in both retry guards, withRetry does not give up on a transient error
\* before the operation has failed N times, and when an invocation succeeds
\* after M transient failures withRetry returns its value, the operation having
\* been invoked exactly M + 1 times (every failure before it was followed by
\* one wait).
C4_SucceedsAfterTransientFailures ==
    /\ (nPc = "withRetryDone" /\ nOutcome.kind = "returned") =>
         /\ nOutcome.value = NullValue
         /\ nCalls = Len(nDelays) + 1
    /\ (/\ nPc = "withRetryDone"
        /\ nOutcome.kind = "threw"
        /\ nOutcome.value.kind = "Error"
        /\ nOutcome.value.status \in {429, 503})
       => nCalls >= nMaxRetries
    /\ \A k \in DOMAIN fTask :
         /\ (fTask[k].pc = "withRetrySettled" /\ fTask[k].retry.settled = "returned") =>
              /\ fTask[k].summary = SummaryOf(fTask[k].content)
              /\ fTask[k].retry.calls = Len(fTask[k].retry.delays) + 1
         /\ (/\ fTask[k].pc = "withRetrySettled"
             /\ fTask[k].retry.settled = "threw"
             /\ fTask[k].retry.error.rateLimit)
            => fTask[k].retry.calls >= MaxRetries

\* C4 witness: nugget's operation failed twice with a transient status (M = 2,
\* N = 3) and its third invocation returned.
C4_Witness ==
    /\ nPc = "withRetryDone"
    /\ nOutcome.kind = "returned"
    /\ nMaxRetries = 3
    /\ nCalls = 3
    /\ Len(nDelays) = 2

\* C5: in both retry guards, an error that is not transient (nugget: a status
\* other than 429/503, or none; feed2llm: not a rate_limit_error) ends withRetry
\* at once: no wait and no invocation follows it, and withRetry throws that
\* very error; when it is the first invocation that fails so, the operation
\* was invoked exactly once and no wait occurred.
C5_PermanentErrorNotRetried ==
    /\ (lastError.kind = "Error" /\ lastError.status \notin {429, 503}) =>
         /\ nPc \notin {"sleep", "operation"}
         /\ nOutcome = [kind |-> "threw", value |-> lastError]
         /\ nCalls = lastError.id
         /\ Len(nDelays) = nCalls - 1
    /\ \A k \in DOMAIN fTask :
         (fTask[k].retry.error.id # 0 /\ ~fTask[k].retry.error.rateLimit) =>
           /\ fTask[k].pc = "withRetrySettled"
           /\ fTask[k].retry.settled = "threw"
           /\ fTask[k].retry.calls = fTask[k].retry.error.id
           /\ Len(fTask[k].retry.delays) = fTask[k].retry.calls - 1

\* C5 witness: feed2llm's operation failed on its first invocation with an
\* error that is not a rate_limit_error, and withRetry threw it.
C5_Witness ==
    \E k \in DOMAIN fTask :
      /\ fTask[k].pc = "withRetrySettled"
      /\ fTask[k].retry.settled = "threw"
      /\ ~fTask[k].retry.error.rateLimit
      /\ fTask[k].retry.error.id = 1
      /\ fTask[k].retry.calls = 1
      /\ fTask[k].retry.delays = <<>>

\* C6: gawk's ResultReporter.report throws for no outcome sequence and no
\* combination of options, so a batch whose processing completed never ends
\* with exit code 1.
C6_ReportNeverThrows ==
    /\ gMainPc = "report" => ReportThrows(results, gOptions) = "none"
    /\ gMainPc # "exit1"

\* C7: in gawk and in nugget a failure while transforming one item never
\* rejects the batch: the run does not end in main's catch before every item
\* has an outcome, and at the end every input item has exactly one outcome, a
\* failed item's outcome carrying an error message.
C7_FailureIsolation ==
    /\ gMainPc \in {"report", "exit0", "exit1"} =>
         /\ Len(results) = Len(filePaths)
         /\ \A i \in 1..Len(results) :
              ~results[i].success =>
                /\ results[i].filepath = filePaths[i]
                /\ results[i].error \notin {Undefined, "pending"}
    /\ nPc # "exit1"
    /\ nPc = "exit0" =>
         /\ Len(nResults) = nFiles
         /\ \A i \in 1..Len(nResults) :
              /\ nResults[i].file = i
              /\ ~nResults[i].suggestions => nResults[i].error.kind = "Error"

\* C8: in feed2llm two feed items with different URLs have different cache
\* ids, and no item ever holds a content or a summary other than its own.
C8_CacheIdUniquePerItem ==
    /\ \A j, k \in DOMAIN fArticles :
         fArticles[j] # fArticles[k] => CacheId(fArticles[j]) # CacheId(fArticles[k])
    /\ \A k \in DOMAIN fTask :
         /\ fTask[k].content \in {0, ContentOf(fArticles[k])}
         /\ fTask[k].summary \in {0, SummaryOf(ContentOf(fArticles[k]))}

\* C9: in feed2llm, when processArticle succeeded for an item in the first run,
\* the second run over the same feed and cache makes no remote call for it and
\* writes the same article and summary.
C9_SecondRunIdempotent ==
    fRun = 2 =>
      \A k \in DOMAIN fTask :
        (fRun1[k].result = "summary" /\ fTask[k].pc = "returned") =>
          /\ ~fTask[k].usedRemote
          /\ fTask[k].result = "summary"
          /\ fTask[k].content = fRun1[k].content
          /\ fTask[k].summary = fRun1[k].summary

\* C10: when a page request of gh2md's fetchers or of Zendesk's fetchTickets
\* has failed, the run never writes its output and exits with code 0.
C10_FailedFetchNeverExitsZero ==
    (\E f \in DOMAIN fx : fx[f].failed) => xMain.exit # "0"

\* C11: linear2llm's fetchProjectIssues sends its page requests through a
\* retry guard: with 3 pages of 2 items, when the second page request has
\* failed once the fetch is still running (it goes on to request that page
\* again), so that it ends with 4 requests and all 6 items.
C11_LinearPageRequestRetried ==
    (/\ tool = "fetch"
     /\ "linearIssues" \in DOMAIN fx
     /\ Len(srv["linearIssues"]) = 6
     /\ pageSize = 2
     /\ fx["linearIssues"].failed
     /\ fx["linearIssues"].requests = 2)
    => /\ fx["linearIssues"].pc = "request"
       /\ fx["linearIssues"].items = <<1, 2>>

\* C12: in every script that takes a date range (gh2md, fireflies2md,
\* readwise2md, gmail2md, Zendesk), when a date argument does not parse or the
\* end date is before the start date, no network request is ever issued.
C12_BadRangeRejectedBeforeRequest ==
    (/\ tool = "dates"
     /\ \/ dArgs.start.kind = "unparseable"
        \/ dArgs.end.kind = "unparseable"
        \/ /\ dArgs.start.kind = "date"
           /\ dArgs.end.kind = "date"
           /\ dArgs.end.day < dArgs.start.day)
    => dRequests = 0

\* C13: in readwise2md and gh2md an item whose timestamp is on a day from the
\* --start day to the --end day, at any time of the day, is in the export.
C13_RangeInclusiveOfEndDay ==
    (/\ tool = "dates"
     /\ dTool \in {"gh2md", "readwise2md"}
     /\ dPc = "done"
     /\ dArgs.start.day <= dItem.day
     /\ dItem.day <= dArgs.end.day)
    => dIncluded = "included"

\* C14: isp2ynab's isValidDate accepts exactly the DD/MM/YY strings that
\* denote an existing calendar date of the years 2000-2099 (month 1..12, day
\* 1..length of the month, February having 29 days when the year is divisible
\* by 4), and is false for every other string, non-string and empty cell.
C14_IsValidDateExactlyCalendarDates ==
    iPc \in {"map", "dropped", "emitted"} =>
      LET c == iRow.date
          monthLength ==
            CASE c.month = 2 -> (IF c.year % 4 = 0 THEN 29 ELSE 28)
              [] c.month \in {4, 6, 9, 11} -> 30
              [] OTHER -> 31
          isCalendarDate ==
            /\ c.kind = "ddmmyy"
            /\ c.month \in 1..12
            /\ c.day \in 1..monthLength
      IN (iPc \in {"map", "emitted"}) <=> isCalendarDate

\* C14 witness: 29/02/24 has been accepted by the filter.
C14_Witness ==
    /\ iPc = "map"
    /\ iRow.date = DateCellOf("ddmmyy", 29, 2, 24)

\* C15: for a row with a valid date whose outflow cell is formatted like
\* "-€1.234,56" (a minus sign, the currency symbol, then digits, separators
\* and spaces), the emitted Outflow consists of digits only.
C15_OutflowPlainNumber ==
    (/\ iPc = "emitted"
     /\ Len(iRow.outflow) >= 3
     /\ iRow.outflow[1] = "-"
     /\ iRow.outflow[2] = "€"
     /\ \A i \in 3..Len(iRow.outflow) : iRow.outflow[i] \in {"1", ".", ",", " "})
    => \A i \in 1..Len(iOut.Outflow) : iOut.Outflow[i] = "1"

\* C16: while gawk applies renames and content changes with concurrency K,
\* no write or rename destroys a file: at every moment the content of every
\* input file is held by some path of the directory.
C16_RenameNeverDestroysAFile ==
    tool = "rename" =>
      \A i \in DOMAIN rTask : \E q \in RenamePaths : rDir[q] = i

\* C17: in feed2llm's processArticles never more than K processArticle calls
\* are in flight, K being the --concurrent limit, whether it is the built-in
\* default (a number) or was given on the command line (a string).
C17_AtMostKInFlight ==
    FeedInFlight <= fConcurrent.value

\* C18: in gh2md, with --batch-size B, fetchCommits never has more than B
\* fetchCommitDetails requests in flight.
C18_BatchSizeBoundsCommitDetails ==
    "commits" \in DOMAIN fx =>
      Cardinality(fx["commits"].inFlight) <= xOpts.batchSize

\* C19: in nugget's withRetry, the waits between the successive attempts of
\* one call never decrease, whatever jitter is drawn for each.
C19_NuggetWaitsNonDecreasing ==
    tool = "nugget" =>
      \A a \in 1..Len(nDelays), b \in 1..Len(nDelays) :
         a <= b => nDelays[a] <= nDelays[b]

\* C20: in feed2llm's withRetry, the wait after failed attempt a (from 0) is
\* min(base * 2^a * jitter, ceiling) for a jitter within [0.5, 1.5], base
\* 1000 ms and ceiling 60000 ms; so no wait exceeds the ceiling.
C20_FeedWaitIsJitteredBackoff ==
    tool = "feed2llm" =>
      \A k \in DOMAIN fTask :
        \A n \in 1..Len(fTask[k].retry.delays) :
           LET wait == fTask[k].retry.delays[n]
               exact == RetryDelay * Pow2(n - 1)
           IN /\ Min((exact * 5) \div 10, MaxRetryDelay) <= wait
              /\ wait <= Min((exact * 15) \div 10, MaxRetryDelay)

\* C21: Zendesk's fetchTickets under --max-tickets M >= 1 returns at most M
\* tickets, the first ones in server order, and requests no page once M
\* tickets are collected.
C21_MaxTicketsTrimsAndStops ==
    (tool = "zendesk" /\ xOpts.maxTickets >= 1) =>
      LET t == fx["tickets"]
          M == xOpts.maxTickets
          list == srv["tickets"] IN
      /\ (t.requests - 1) * pageSize < M
      /\ t.pc = "returned" =>
           /\ Len(t.value) <= M
           /\ t.value = SubSeq(list, 1, Len(t.value))
           /\ ~t.failed => Len(t.value) = Min(M, Len(list))

C21_Witness ==
    /\ tool = "zendesk"
    /\ xOpts.maxTickets = 3
    /\ pageSize = 2
    /\ Len(srv["tickets"]) >= 4
    /\ fx["tickets"].pc = "returned"
    /\ ~fx["tickets"].failed
    /\ fx["tickets"].value = <<1, 2, 3>>
    /\ fx["tickets"].requests = 2

\* C22: gmail2md's exportThreads requests each page after the first with the
\* nextPageToken of the previous response, processes every thread exactly
\* once, and ends after the first response without a nextPageToken.
C22_GmailAdvancesPageToken ==
    tool = "gmail2md" =>
      /\ \A r \in 2..Len(mx.sent) : mx.sent[r] = mx.received[r - 1]
      /\ \A t \in DOMAIN mx.handled : mx.handled[t] <= 1
      /\ mx.exit = "0" => \A t \in DOMAIN mx.handled : mx.handled[t] = 1

\* C23: the Trustpilot scrapers' getAllReviews stops at the first page that
\* yields no reviews, a page with an empty review list included: no page is
\* requested after such a page.
C23_StopsAtFirstPageWithoutReviews ==
    (tool = "trustpilot" /\ fx["reviews"].requests >= 1) =>
      \/ fx["reviews"].pc = "returned"
      \/ RestPage(srv["reviews"], fx["reviews"].page - 1, pageSize) # <<>>

\* C24: fireflies2md's fetchAllTranscripts issues no request after a page
\* shorter than PAGE_SIZE.
C24_ShortPageIsLastPage ==
    (tool = "fetch" /\ "transcripts" \in DOMAIN fx) =>
      LET t == fx["transcripts"] IN
      (t.pc = "request" /\ t.page > 1) =>
         Len(SkipPage(srv["transcripts"], (t.page - 2) * pageSize, pageSize)) = pageSize

\* C25: feed2llm's processArticles keeps K operations in flight: while an
\* operation is still running and unstarted items remain, K are in flight (a
\* completed operation is replaced by the next item at once).
C25_PipelineKeptFull ==
    tool = "feed2llm-chunks" =>
      ((FeedInFlight >= 1 /\ \E k \in DOMAIN fTask : fTask[k].pc = "notStarted")
         => FeedInFlight >= fConcurrent.value)

\* C26: gh2md's exportGitHubActivity, whatever pull requests, commits, issues
\* and star events were fetched, ends without error having written one file
\* for each day of the range.
C26_OneFilePerDayOfRange ==
    (tool = "gh2md" /\ xMain.pc = "exited") =>
      /\ xMain.exit = "0"
      /\ xMain.files = xOpts.days

\* C27: in feed2llm, any two HTTP requests leave the request interceptor at
\* least options.delay apart, however the concurrent requests interleave.
C27_RequestsSpacedByDelay ==
    tool = "http" =>
      \A r1, r2 \in DOMAIN hReq :
         (r1 # r2 /\ hReq[r1].pc = "left" /\ hReq[r2].pc = "left") =>
            \/ hReq[r1].leftAt - hReq[r2].leftAt >= hDelay
            \/ hReq[r2].leftAt - hReq[r1].leftAt >= hDelay

\* C28: in gawk with --backup, the backup copy of a processed file is written
\* before any write, unlink or rename is applied to that file: the copy holds
\* the file as it was when the run started.
C28_BackupPrecedesEveryChange ==
    (tool = "rename" /\ rOptions.backup) =>
      \A i \in DOMAIN rBackup : rBackup[i] # 0 => rBackup[i] = i

\* C29: the filename returned by gawk's validateFilenameResponse has at most
\* MAX_FILENAME_LENGTH = 255 characters, for every response and original name.
C29_FilenameWithinLengthLimit ==
    (tool = "validateFilename" /\ vReturned # 0) => vReturned <= MAX_FILENAME_LENGTH

\* C30: receipt2fic prints 'All pages processed successfully!' only when
\* every page was analysed, validated, uploaded and turned into a document.
C30_SuccessOnlyWhenEveryPageSucceeded ==
    (tool = "receipt2fic" /\ cx.printed) =>
      /\ cx.failed = {}
      /\ cx.documents = 1..cPages

====
